---- MODULE Spec2Model ----
(***************************************************************************)
(* Model of the log ingestion and query backend (backendAtNode):          *)
(* utils/logParser.js, models/Log.js, enums.js and routes/logs.js.        *)
(*                                                                         *)
(* JavaScript values are modelled as records [t, s, kv]: t is the type    *)
(* tag, s the result of String(v), kv the own enumerable properties in    *)
(* insertion order (a sequence of [k, v] pairs) for objects and arrays.   *)
(***************************************************************************)
EXTENDS Integers, Sequences, FiniteSets, TLC

(* ------------------------------ bounds --------------------------------- *)
\* largest number of lines in one uploaded file
MaxLines == 2
\* largest number of documents the logs collection holds
MaxLogs == 2
\* last value of the wall clock
MaxNow == 6
\* largest number of files left in uploads/logs
MaxFiles == 2

(* --------------------------- JavaScript values ------------------------- *)
Str(x) == [t |-> "str", s |-> x, kv |-> <<>>]
Num(x) == [t |-> "num", s |-> x, kv |-> <<>>]
Bool(x) == [t |-> "bool", s |-> x, kv |-> <<>>]
Null == [t |-> "null", s |-> "null", kv |-> <<>>]
Undefined == [t |-> "undefined", s |-> "undefined", kv |-> <<>>]
Obj(pairs) == [t |-> "obj", s |-> "[object Object]", kv |-> pairs]
\* an array: the elements under their indexes, String(v) supplied
Arr(text, elements) == [t |-> "arr", s |-> text, kv |-> elements]
KV(key, val) == [k |-> key, v |-> val]

\* JavaScript truthiness (ToBoolean)
Truthy(v) ==
  ~ \/ v.t \in {"null", "undefined"}
    \/ (v.t = "str" /\ v.s = "")
    \/ (v.t = "num" /\ v.s \in {"0", "NaN"})
    \/ (v.t = "bool" /\ v.s = "false")

\* a || b
OrElse(a, b) == IF Truthy(a) THEN a ELSE b

\* vs[1] || vs[2] || ... || vs[n]: the first truthy operand, else the last one
RECURSIVE OrChain(_)
OrChain(vs) ==
  IF Len(vs) = 1 \/ Truthy(Head(vs)) THEN Head(vs) ELSE OrChain(Tail(vs))

\* Object.keys(obj) as a set
Keys(pairs) == {pairs[i].k : i \in 1..Len(pairs)}

\* obj[key]: the value of the property, undefined when it is absent
Get(v, key) ==
  IF \E i \in 1..Len(v.kv) : v.kv[i].k = key
  THEN v.kv[CHOOSE i \in 1..Len(v.kv) : v.kv[i].k = key].v
  ELSE Undefined

\* delete obj[key] for every key of a set
DeleteKeys(pairs, ks) == SelectSeq(pairs, LAMBDA p : p.k \notin ks)

\* parseInt(text) for the numerals that occur in lines and requests
ParseInt(text) ==
  CASE text = "0" -> 0 [] text = "1" -> 1 [] text = "2" -> 2 [] text = "3" -> 3
    [] text = "5" -> 5 [] text = "10" -> 10 [] text = "100" -> 100
    [] text = "101" -> 101 [] text = "-1" -> -1 [] text = "500" -> 500
    [] text = "503" -> 503 [] text = "400" -> 400 [] text = "399" -> 399
    [] text = "200" -> 200 [] text = "7" -> 7 [] text = "12" -> 12

\* String.prototype.toLowerCase over the level strings that occur in lines
ToLowerCase(x) ==
  CASE x = "ERROR" -> "error"
    [] x = "WARNING" -> "warning"
    [] x = "Warning" -> "warning"
    [] x = "Crit" -> "crit"
    [] x = "INFO" -> "info"
    [] OTHER -> x

(* ------------------------------- enums --------------------------------- *)
\* the LogLevel table: key -> value
LogLevel ==
  [DEBUG |-> "debug", INFO |-> "info", NOTICE |-> "notice", WARN |-> "warn",
   WARNING |-> "warn", ERROR |-> "error", ERR |-> "error",
   CRITICAL |-> "critical", CRIT |-> "critical", ALERT |-> "alert",
   EMERGENCY |-> "emergency", EMERG |-> "emergency", FATAL |-> "fatal"]

\* Object.values(LogLevel)
LogLevelValues == {LogLevel[key] : key \in DOMAIN LogLevel}

LogFormat ==
  [JSON_LINES |-> "json_lines", SYSLOG |-> "syslog",
   NGINX_ERROR |-> "nginx_error", CLF |-> "clf"]

LogFormatValues == {LogFormat[key] : key \in DOMAIN LogFormat}

Role == [VIEWER |-> "viewer", MANAGER |-> "manager"]

(* -------------------------------- lines -------------------------------- *)
(* A line of an uploaded file is the record of its text and of what the    *)
(* four grammars of logParser.js capture in the trimmed text: json is      *)
(* <<JSON.parse(text)>> or <<>> when JSON.parse throws; syslog, nginx and  *)
(* clf are <<the capture groups>> or <<>> when the pattern does not match. *)
NoMatch == <<>>

Line(rawText, trimmedText, j, s, n, c) ==
  [raw |-> rawText, trimmed |-> trimmedText, json |-> j, syslog |-> s,
   nginx |-> n, clf |-> c]

\* {"time":"2024-03-15T12:00:01Z","level":"ERROR","service":"api","msg":"boom","user":{"id":"7"}}
LineJsonUpper ==
  Line("{\"time\":\"2024-03-15T12:00:01Z\",\"level\":\"ERROR\",\"service\":\"api\",\"msg\":\"boom\",\"user\":{\"id\":\"7\"}}",
       "{\"time\":\"2024-03-15T12:00:01Z\",\"level\":\"ERROR\",\"service\":\"api\",\"msg\":\"boom\",\"user\":{\"id\":\"7\"}}",
       <<Obj(<<KV("time", Str("2024-03-15T12:00:01Z")), KV("level", Str("ERROR")),
               KV("service", Str("api")), KV("msg", Str("boom")),
               KV("user", Obj(<<KV("id", Str("7"))>>))>>)>>,
       NoMatch, NoMatch, NoMatch)

\* null
LineJsonNull == Line("null", "null", <<Null>>, NoMatch, NoMatch, NoMatch)

SyslogMatch(ts, h, svc, p, hd, msg) ==
  [timestampStr |-> ts, host |-> h, service |-> svc, pid |-> p,
   head |-> hd, message |-> msg]

\* Mar 15 12:34:56 myhost sshd[12345]: warning: disk almost full
LineSyslogWarning ==
  Line("Mar 15 12:34:56 myhost sshd[12345]: warning: disk almost full",
       "Mar 15 12:34:56 myhost sshd[12345]: warning: disk almost full", NoMatch,
       <<SyslogMatch("Mar 15 12:34:56", "myhost", "sshd", Str("12345"),
                     "warning", "warning: disk almost full")>>,
       NoMatch, NoMatch)

NginxMatch(ts, lvl, p, t, conn, msg, ip) ==
  [timestampStr |-> ts, level |-> lvl, pid |-> p, tid |-> t,
   connectionId |-> conn, message |-> msg, clientIp |-> ip]

ClfMatch(i, id, u, ts, req, st, sz) ==
  [ip |-> i, ident |-> id, user |-> u, timestampStr |-> ts,
   request |-> req, status |-> st, size |-> sz]

\* hello world
LineGarbage == Line("hello world", "hello world", NoMatch, NoMatch, NoMatch, NoMatch)

\* a line of blanks
LineBlank == Line("   ", "", NoMatch, NoMatch, NoMatch, NoMatch)

\* every line of the corpus
Lines ==
  {LineJsonUpper, LineJsonNull, LineSyslogWarning, LineGarbage, LineBlank,
   \* {"message":"hello"}
   Line("{\"message\":\"hello\"}",
        "{\"message\":\"hello\"}",
        <<Obj(<<KV("message", Str("hello"))>>)>>, NoMatch, NoMatch, NoMatch),
   \* {"severity":"WARNING","app":"db","message":"slow","timestamp":"yesterday"}
   Line("{\"severity\":\"WARNING\",\"app\":\"db\",\"message\":\"slow\",\"timestamp\":\"yesterday\"}",
        "{\"severity\":\"WARNING\",\"app\":\"db\",\"message\":\"slow\",\"timestamp\":\"yesterday\"}",
        <<Obj(<<KV("severity", Str("WARNING")), KV("app", Str("db")),
                KV("message", Str("slow")), KV("timestamp", Str("yesterday"))>>)>>,
        NoMatch, NoMatch, NoMatch),
   \* {"level":5,"message":"n"}
   Line("{\"level\":5,\"message\":\"n\"}",
        "{\"level\":5,\"message\":\"n\"}",
        <<Obj(<<KV("level", Num("5")), KV("message", Str("n"))>>)>>,
        NoMatch, NoMatch, NoMatch),
   \* "  Mar 15 12:34:57 myhost cron: job done" (leading blanks, no pid, no level)
   Line("  Mar 15 12:34:57 myhost cron: job done",
        "Mar 15 12:34:57 myhost cron: job done", NoMatch,
        <<SyslogMatch("Mar 15 12:34:57", "myhost", "cron", Undefined,
                      "", "job done")>>,
        NoMatch, NoMatch),
   \* 2024/03/15 12:34:56 [error] 1234#1234: *99 Something broke, client: 10.0.0.5
   Line("2024/03/15 12:34:56 [error] 1234#1234: *99 Something broke, client: 10.0.0.5",
        "2024/03/15 12:34:56 [error] 1234#1234: *99 Something broke, client: 10.0.0.5", NoMatch, NoMatch,
        <<NginxMatch("2024/03/15 12:34:56", "error", "1234", "1234", Str("99"),
                     "Something broke, client: 10.0.0.5", <<"10.0.0.5">>)>>,
        NoMatch),
   \* 2024/03/15 12:34:57 [Crit] 7#8: worker exited
   Line("2024/03/15 12:34:57 [Crit] 7#8: worker exited",
        "2024/03/15 12:34:57 [Crit] 7#8: worker exited", NoMatch, NoMatch,
        <<NginxMatch("2024/03/15 12:34:57", "Crit", "7", "8", Undefined,
                     "worker exited", <<>>)>>,
        NoMatch),
   \* 127.0.0.1 - frank [10/Oct/2000:13:55:36 -0700] "GET /a HTTP/1.0" 503 12
   \* (request holds request.split(' '))
   Line("127.0.0.1 - frank [10/Oct/2000:13:55:36 -0700] \"GET /a HTTP/1.0\" 503 12",
        "127.0.0.1 - frank [10/Oct/2000:13:55:36 -0700] \"GET /a HTTP/1.0\" 503 12", NoMatch, NoMatch, NoMatch,
        <<ClfMatch("127.0.0.1", "-", "frank", "10/Oct/2000:13:55:36 -0700",
                   <<"GET", "/a", "HTTP/1.0">>, "503", "12")>>),
   \* 127.0.0.1 - - [10/Oct/2000:13:55:36 -0700] "POST /b HTTP/1.1" 500 0
   Line("127.0.0.1 - - [10/Oct/2000:13:55:36 -0700] \"POST /b HTTP/1.1\" 500 0",
        "127.0.0.1 - - [10/Oct/2000:13:55:36 -0700] \"POST /b HTTP/1.1\" 500 0",
        NoMatch, NoMatch, NoMatch,
        <<ClfMatch("127.0.0.1", "-", "-", "10/Oct/2000:13:55:36 -0700",
                   <<"POST", "/b", "HTTP/1.1">>, "500", "0")>>),
   \* 127.0.0.1 - - [10/Oct/2000:13:55:36 -0700] "GET /c HTTP/1.1" 400 7
   Line("127.0.0.1 - - [10/Oct/2000:13:55:36 -0700] \"GET /c HTTP/1.1\" 400 7",
        "127.0.0.1 - - [10/Oct/2000:13:55:36 -0700] \"GET /c HTTP/1.1\" 400 7",
        NoMatch, NoMatch, NoMatch,
        <<ClfMatch("127.0.0.1", "-", "-", "10/Oct/2000:13:55:36 -0700",
                   <<"GET", "/c", "HTTP/1.1">>, "400", "7")>>),
   \* 127.0.0.1 - - [10/Oct/2000:13:55:36 -0700] "GET /d HTTP/1.1" 399 7
   Line("127.0.0.1 - - [10/Oct/2000:13:55:36 -0700] \"GET /d HTTP/1.1\" 399 7",
        "127.0.0.1 - - [10/Oct/2000:13:55:36 -0700] \"GET /d HTTP/1.1\" 399 7",
        NoMatch, NoMatch, NoMatch,
        <<ClfMatch("127.0.0.1", "-", "-", "10/Oct/2000:13:55:36 -0700",
                   <<"GET", "/d", "HTTP/1.1">>, "399", "7")>>),
   \* Mar 15 12:34:56 [10/Oct/2000:13:55:36 -0700] "GET /a: b HTTP/1.0" 200 12
   \* (the syslog and the CLF patterns both match)
   Line("Mar 15 12:34:56 [10/Oct/2000:13:55:36 -0700] \"GET /a: b HTTP/1.0\" 200 12",
        "Mar 15 12:34:56 [10/Oct/2000:13:55:36 -0700] \"GET /a: b HTTP/1.0\" 200 12",
        NoMatch,
        <<SyslogMatch("Mar 15 12:34:56", "[10/Oct/2000:13:55:36", "-0700] \"GET /a",
                      Undefined, "", "b HTTP/1.0\" 200 12")>>,
        NoMatch,
        <<ClfMatch("Mar", "15", "12:34:56", "10/Oct/2000:13:55:36 -0700",
                   <<"GET", "/a:", "b", "HTTP/1.0">>, "200", "12")>>),
   \* [1,2]
   Line("[1,2]", "[1,2]",
        <<Arr("1,2", <<KV("0", Num("1")), KV("1", Num("2"))>>)>>,
        NoMatch, NoMatch, NoMatch),
   \* 5
   Line("5", "5", <<Num("5")>>, NoMatch, NoMatch, NoMatch)}

(* ------------------------------ logParser ------------------------------ *)
\* moment(text) for the timestamp texts of the corpus, as an instant of the
\* model's clock; 0 stands for an invalid moment
Moment(text) ==
  CASE text = "2024-03-15T12:00:01Z" -> 1
    [] text = "10/Oct/2000:13:55:36 -0700" -> 1
    [] text = "Mar 15 12:34:56" -> 2
    [] text = "2024/03/15 12:34:56" -> 2
    [] text = "Mar 15 12:34:57" -> 3
    [] text = "2024/03/15 12:34:57" -> 3
    [] OTHER -> 0

isJsonLines(line) == line.json # NoMatch
isSyslog(line) == line.syslog # NoMatch
isNginxError(line) == line.nginx # NoMatch
isClf(line) == line.clf # NoMatch

\* what a parser returns: a draft entry, or the exception it threw
Draft(ts, lvl, svc, msg, m, fmt) ==
  [timestamp |-> ts, level |-> lvl, service |-> svc, message |-> msg,
   meta |-> m, format |-> fmt]
Returned(d) == [threw |-> FALSE, error |-> "", value |-> d]
Threw(msg) ==
  [threw |-> TRUE, error |-> msg,
   value |-> Draft(0, "", Undefined, Undefined, Undefined, "")]

\* moment(timestampField), replaced by moment() when it is not valid; the
\* timestamps of the corpus are texts
JsonTimestamp(timestampField, now) ==
  IF timestampField.t = "str" /\ Moment(timestampField.s) # 0
  THEN Moment(timestampField.s) ELSE now

\* the rest of parseJsonLines once the fields are extracted
JsonDraft(timestampField, rawLevel, service, message, meta, now) ==
  IF rawLevel.t # "str"
  THEN Threw("toLowerCase is not a function")
  ELSE Returned(Draft(JsonTimestamp(timestampField, now), ToLowerCase(rawLevel.s),
                      service, message,
                      IF Len(meta) > 0 THEN Obj(meta) ELSE Null,
                      LogFormat.JSON_LINES))

\* parseJsonLines on data = JSON.parse(line)
parseJsonData(data, now) ==
  IF data.t \in {"null", "undefined"}
  THEN Threw("Cannot read properties of null (reading 'timestamp')")
  ELSE JsonDraft(
         OrChain(<<Get(data, "timestamp"), Get(data, "time"), Get(data, "@timestamp")>>),
         OrChain(<<Get(data, "level"), Get(data, "severity"), Str("info")>>),
         OrChain(<<Get(data, "service"), Get(data, "application"), Get(data, "app"),
                   Str("unknown")>>),
         OrChain(<<Get(data, "message"), Get(data, "msg"), Str("")>>),
         DeleteKeys(data.kv, {"timestamp", "time", "@timestamp", "level", "severity",
                              "service", "application", "app", "message", "msg"}),
         now)

parseJsonLines(line, now) == parseJsonData(line.json[1], now)

SyslogLevelTokens ==
  {"debug", "info", "notice", "warning", "warn", "error", "err", "crit",
   "alert", "emerg"}

\* levelMatch ? levelMatch[1].toLowerCase() : 'info', on the text before the
\* first colon of the message
SyslogLevel(head) ==
  IF ToLowerCase(head) \in SyslogLevelTokens THEN ToLowerCase(head) ELSE "info"

\* parseSyslog on the capture groups
SyslogDraft(match) ==
  Returned(Draft(Moment(match.timestampStr), SyslogLevel(match.head),
                 Str(match.service), Str(match.message),
                 Obj(<<KV("host", Str(match.host)), KV("pid", OrElse(match.pid, Null))>>),
                 LogFormat.SYSLOG))

parseSyslog(line) ==
  IF line.syslog = NoMatch THEN Threw("Invalid syslog format")
  ELSE SyslogDraft(line.syslog[1])

\* connection_id left undefined when the line has no connection
NginxMetaNoNull(match) ==
  <<KV("pid", Str(match.pid)), KV("thread_id", Str(match.tid)),
    KV("connection_id", match.connectionId)>>
  \o (IF match.clientIp # <<>> THEN <<KV("client_ip", Str(match.clientIp[1]))>> ELSE <<>>)

\* meta of parseNginxError: client_ip only when the message names a client
NginxMeta(match) ==
  <<KV("pid", Str(match.pid)), KV("thread_id", Str(match.tid)),
    KV("connection_id", OrElse(match.connectionId, Null))>>
  \o (IF match.clientIp # <<>> THEN <<KV("client_ip", Str(match.clientIp[1]))>> ELSE <<>>)

\* parseNginxError on the capture groups
NginxDraft(match) ==
  Returned(Draft(Moment(match.timestampStr), ToLowerCase(match.level), Str("nginx"),
                 Str(match.message), Obj(NginxMeta(match)), LogFormat.NGINX_ERROR))

parseNginxError(line) ==
  IF line.nginx = NoMatch THEN Threw("Invalid nginx error format")
  ELSE NginxDraft(line.nginx[1])

\* parts[i] || ''
PartOr(parts, i) == IF i <= Len(parts) THEN parts[i] ELSE ""

\* the thresholds taken as exclusive
ClfLevelAbove(statusCode) ==
  IF statusCode > 500 THEN "error" ELSE IF statusCode > 400 THEN "warn" ELSE "info"

\* level from the status code
ClfLevel(statusCode) ==
  IF statusCode >= 500 THEN "error" ELSE IF statusCode >= 400 THEN "warn" ELSE "info"

\* parseClf on the capture groups and the parts of the request
ClfDraft(match, method, path, protocol) ==
  Returned(Draft(Moment(match.timestampStr), ClfLevel(ParseInt(match.status)), Str("http"),
                 Str(method \o " " \o path \o " " \o ToString(ParseInt(match.status))),
                 Obj(<<KV("ip", Str(match.ip)),
                       KV("ident", IF match.ident # "-" THEN Str(match.ident) ELSE Null),
                       KV("user", IF match.user # "-" THEN Str(match.user) ELSE Null),
                       KV("status", Num(ToString(ParseInt(match.status)))),
                       KV("size", Num(ToString(ParseInt(match.size)))),
                       KV("method", Str(method)), KV("path", Str(path)),
                       KV("protocol", Str(protocol))>>),
                 LogFormat.CLF))

parseClf(line) ==
  IF line.clf = NoMatch THEN Threw("Invalid CLF format")
  ELSE ClfDraft(line.clf[1], PartOr(line.clf[1].request, 1),
                PartOr(line.clf[1].request, 2), PartOr(line.clf[1].request, 3))

\* the CLF pattern tried before the syslog pattern
DispatchClfFirst(line, now) ==
  IF isJsonLines(line) THEN parseJsonLines(line, now)
  ELSE IF isClf(line) THEN parseClf(line)
  ELSE IF isSyslog(line) THEN parseSyslog(line)
  ELSE IF isNginxError(line) THEN parseNginxError(line)
  ELSE Threw("Unknown log format")

\* the parser the classifier selects, or the "Unknown log format" error
Dispatch(line, now) ==
  IF isJsonLines(line) THEN parseJsonLines(line, now)
  ELSE IF isSyslog(line) THEN parseSyslog(line)
  ELSE IF isNginxError(line) THEN parseNginxError(line)
  ELSE IF isClf(line) THEN parseClf(line)
  ELSE Threw("Unknown log format")

\* the catch block of detectLogFormatAndParse
ParserErrorEntry(line, now, error) ==
  Draft(now, "error", Str("parser"), Str("Failed to parse log line: " \o error),
        Obj(<<KV("original_line", Str(line.trimmed))>>), LogFormat.JSON_LINES)

\* never throws: the outcome of the try block, or for an exception of the try
\* block the entry of the catch block
detectLogFormatAndParse(line, now) ==
  IF Dispatch(line, now).threw
  THEN Returned(ParserErrorEntry(line, now, Dispatch(line, now).error))
  ELSE Dispatch(line, now)

(* ------------------------------ models/Log ----------------------------- *)
\* Mongoose's cast of a value to the String type of a schema path
CanCastString(v) == v.t \in {"str", "num", "bool", "null", "undefined"}
CastString(v) == IF v.t \in {"null", "undefined"} THEN "" ELSE v.s

\* a document handed to the Log model: level, format, original_level are
\* strings, service and message JavaScript values, timestamp an instant
\* (0 for an invalid Date), organizationID an organization, meta any value
Doc(ts, lvl, svc, msg, fmt, org, m, orig) ==
  [timestamp |-> ts, level |-> lvl, service |-> svc, message |-> msg,
   format |-> fmt, organizationID |-> org, meta |-> m, original_level |-> orig]

\* logSchema: the validation Mongoose runs before a document is written
ValidLog(d) ==
  /\ d.timestamp # 0
  /\ d.level \in LogLevelValues
  /\ CanCastString(d.service) /\ CastString(d.service) # ""
  /\ CanCastString(d.message)
  /\ d.format \in LogFormatValues
  /\ d.organizationID # ""

\* the stored document: the cast fields and the _id the store assigned
Stored(d, id) ==
  [_id |-> id, timestamp |-> d.timestamp, level |-> d.level,
   service |-> CastString(d.service), message |-> CastString(d.message),
   format |-> d.format, organizationID |-> d.organizationID, meta |-> d.meta,
   original_level |-> d.original_level]

(* -------------------------------- users -------------------------------- *)
User(name, r, org) == [username |-> name, role |-> r, organizationID |-> org]
Users ==
  {User("mgrA", Role.MANAGER, "orgA"), User("mgrB", Role.MANAGER, "orgB"),
   User("viewA", Role.VIEWER, "orgA")}

(* ------------------------------- state --------------------------------- *)
VARIABLES
  logs,   \* the logs collection, in insertion order
  now,    \* the wall clock read by new Date() and moment()
  pc,     \* "idle", or "responded" while a response is on its way to the client
  req,    \* the request being answered
  resp,   \* the response to it
  input,  \* the meta object handed to flattenObject on its own
  output, \* the results of flattenObject applied to it, then to its result
  disk,   \* the paths of the files in uploads/logs
  trace,  \* what ran for the request being answered: the middlewares, the
          \* handler and its operations on the logs collection, in order
  http,   \* the method, path and Authorization header app.js last received
  searchFilters, \* LogsDisplay: the search parameters (state searchFilters)
  entered,       \* SearchEngine: the last value given to each input
  timers,        \* SearchEngine: the pending debounce timers, oldest first
  inflight,      \* LogsDisplay: the calls of fetchLogs awaiting their response
  logsData,      \* LogsDisplay: the response on display (state logsData)
  fetchError,    \* LogsDisplay: whether the last fetchLogs to end failed
  edits          \* the number of changes the user made in the dashboard

\* the state of the dashboard, and the state of the service
frontend == <<searchFilters, entered, timers, inflight, logsData, fetchError, edits>>
backend == <<logs, now, pc, req, resp, input, output, disk, trace, http>>
vars == <<logs, now, pc, req, resp, input, output, disk, trace, http,
          searchFilters, entered, timers, inflight, logsData, fetchError, edits>>

RECURSIVE FreshIds(_, _)
FreshIds(n, used) ==
  IF n = 0 THEN <<>>
  ELSE LET id == CHOOSE i \in 1..(Cardinality(used) + 1) : i \notin used
       IN <<id>> \o FreshIds(n - 1, used \cup {id})

\* req.file: path is the place multer stored the file at, 0 before it did
NoFile == [present |-> FALSE, originalname |-> "", lines |-> <<>>, path |-> 0]
File(name, ls) == [present |-> TRUE, originalname |-> name, lines |-> ls, path |-> 0]
NoBody == Undefined
NoQuery ==
  [level |-> Undefined, format |-> Undefined, tag |-> <<>>,
   start_date |-> Undefined, end_date |-> Undefined, search |-> Undefined,
   limit |-> Undefined, offset |-> Undefined]
Request(o, u, f, i, b, q) ==
  [op |-> o, user |-> u, file |-> f, id |-> i, body |-> b, query |-> q]
NoUser == User("", "", "")
NoRequest == Request("", NoUser, NoFile, 0, NoBody, NoQuery)

NoStats == [total_lines |-> 0, parsed_logs |-> 0, error_count |-> 0, file_name |-> ""]
\* status and detail/message of the body, the fields of errors.array(), upload
\* stats, the logs page with its pagination and X-Total-Count header, and the
\* single log of GET /:log_id
NoResponse ==
  [status |-> 0, detail |-> "", errors |-> {}, stats |-> NoStats, logs |-> <<>>,
   pagination |-> [offset |-> 0, limit |-> 0, total_pages |-> 0],
   total_count |-> 0, log |-> <<>>]
Failure(st, d) == [NoResponse EXCEPT !.status = st, !.detail = d]
Success(st, d) == [NoResponse EXCEPT !.status = st, !.detail = d]

\* no request received yet
NoHttp == [method |-> "", path |-> "", authorization |-> <<>>]

\* useState of LogsDisplay and SearchEngine: the search parameters (an absent
\* key is undefined) and the values of the inputs
InitialFilters ==
  [search |-> Undefined, level |-> Undefined, start_date |-> Undefined,
   end_date |-> Undefined, limit |-> 10, offset |-> 0]
InitialInputs ==
  [search |-> Str(""), level |-> Str(""), start_date |-> Undefined,
   end_date |-> Undefined]

\* the service started, no dashboard open
Init ==
  /\ logs = <<>>
  /\ now = 4
  /\ pc = "idle"
  /\ req = NoRequest
  /\ resp = NoResponse
  /\ input = Null
  /\ output = <<>>
  /\ disk = {}
  /\ trace = <<>>
  /\ http = NoHttp
  /\ searchFilters = InitialFilters
  /\ entered = InitialInputs
  /\ timers = <<>>
  /\ inflight = <<>>
  /\ logsData = <<>>
  /\ fetchError = FALSE
  /\ edits = 0

\* the requests both middlewares let through unchecked
Exempt(method, path) ==
  path \in {"/auth/signup", "/auth/login", "/health"} \/ method = "OPTIONS"

\* roleCheckMiddleware: the methods that change data need the manager role;
\* userData is what jwtValidationMiddleware left in res.locals
\* (below, the role check without PATCH in its list of methods)
roleCheckWithoutPatch(userData, method, path) ==
  IF Exempt(method, path) THEN NoResponse
  ELSE IF userData = NoUser THEN Failure(401, "User data not found")
  ELSE IF method \in {"POST", "PUT", "DELETE"} /\ userData.role # Role.MANAGER
  THEN Failure(403, "Manager role required for this operation")
  ELSE NoResponse

roleCheckMiddleware(userData, method, path) ==
  IF Exempt(method, path) THEN NoResponse
  ELSE IF userData = NoUser THEN Failure(401, "User data not found")
  ELSE IF method \in {"POST", "PUT", "DELETE", "PATCH"} /\ userData.role # Role.MANAGER
  THEN Failure(403, "Manager role required for this operation")
  ELSE NoResponse

(* ---------------------------- POST /upload ----------------------------- *)
\* an assignment that keeps the value a key already has
RECURSIVE AssignKeepsFirst(_, _)
AssignKeepsFirst(target, source) ==
  IF source = <<>> THEN target
  ELSE AssignKeepsFirst(IF Head(source).k \in Keys(target)
                        THEN target ELSE Append(target, Head(source)),
                        Tail(source))

\* Object.assign(target, source)
RECURSIVE Assign(_, _)
Assign(target, source) ==
  IF source = <<>> THEN target
  ELSE LET p == Head(source)
           next ==
             IF p.k \in Keys(target)
             THEN [i \in 1..Len(target) |->
                     IF target[i].k = p.k THEN p ELSE target[i]]
             ELSE Append(target, p)
       IN Assign(next, Tail(source))

\* flattenObject with the nested object merged without being flattened itself
RECURSIVE flattenOneLevel(_, _)
flattenOneLevel(entries, flattened) ==
  IF entries = <<>> THEN flattened
  ELSE LET p == Head(entries)
           next ==
             IF p.v.t = "obj"
             THEN Assign(flattened, p.v.kv)
             ELSE Assign(flattened, <<p>>)
       IN flattenOneLevel(Tail(entries), next)

\* flattenObject over the entries of obj, in Object.entries order
RECURSIVE flattenEntries(_, _)
flattenEntries(entries, flattened) ==
  IF entries = <<>> THEN flattened
  ELSE LET p == Head(entries)
           next ==
             IF p.v.t = "obj"
             THEN Assign(flattened, flattenEntries(p.v.kv, <<>>))
             ELSE Assign(flattened, <<p>>)
       IN flattenEntries(Tail(entries), next)

flattenObject(obj) == Obj(flattenEntries(obj.kv, <<>>))

\* Flatten meta object if it exists
FlattenedMeta(meta) == IF meta.t \in {"obj", "arr"} THEN flattenObject(meta) ELSE Obj(<<>>)

\* the logEntry built in the try block from parsedLog
LogEntry(parsedLog, u) ==
  Doc(parsedLog.timestamp, parsedLog.level, parsedLog.service, parsedLog.message,
      parsedLog.format, u.organizationID, FlattenedMeta(parsedLog.meta),
      parsedLog.level)

\* the errorLog built in the catch block
ErrorLog(line, lineNumber, u, fileName, t, error) ==
  Doc(t, "error", Str("log-parser"),
      Str("Failed to parse line " \o ToString(lineNumber) \o ": " \o error),
      LogFormat.JSON_LINES, u.organizationID,
      Obj(<<KV("original_line", Str(line.raw)),
            KV("line_number", Num(ToString(lineNumber))),
            KV("file_name", Str(fileName))>>),
      "error")

\* the entry pushed for the outcome r of detectLogFormatAndParse, and whether
\* the catch block of the loop ran
Pushed(r, line, lineNumber, u, fileName, t) ==
  IF ~r.threw
  THEN [caught |-> FALSE, entry |-> LogEntry(r.value, u)]
  ELSE [caught |-> TRUE, entry |-> ErrorLog(line, lineNumber, u, fileName, t, r.error)]

\* the body of the for-await loop for one non-blank line
ProcessLine(line, lineNumber, u, fileName, t) ==
  Pushed(detectLogFormatAndParse(line, t), line, lineNumber, u, fileName, t)

\* the test without the trim
isBlankUntrimmed(line) == line.raw = ""

\* line.trim() === ''
isBlank(line) == line.trimmed = ""

\* the line numbers whose lines are not skipped
NonBlank(lines) == {i \in 1..Len(lines) : ~isBlank(lines[i])}

\* the numbers of the non-blank lines, in order
NonBlankSeq(lines) == SelectSeq([i \in 1..Len(lines) |-> i], LAMBDA i : ~isBlank(lines[i]))

\* what the loop pushed, line by line of the non-blank lines
Steps(file, numbers, u, t) ==
  [j \in 1..Len(numbers) |->
     ProcessLine(file.lines[numbers[j]], numbers[j], u, file.originalname, t)]

\* parsedLogs and errorCount after the loop
LoopResult(steps) ==
  [parsedLogs |-> [j \in 1..Len(steps) |-> steps[j].entry],
   errorCount |-> Cardinality({j \in 1..Len(steps) : steps[j].caught})]

\* Log.insertMany(docs): every document is validated first and one invalid
\* document rejects the whole batch; a new document takes the smallest _id
\* that is free
insertManyRejects(docs) == \E i \in 1..Len(docs) : ~ValidLog(docs[i])
insertMany(docs) ==
  logs \o [i \in 1..Len(docs) |->
            Stored(docs[i], FreshIds(Len(docs), {logs[j]._id : j \in 1..Len(logs)})[i])]

\* what ran when a middleware ended the request, and when the handler ran
\* and made these calls
Stopped == <<"jwtValidationMiddleware", "roleCheckMiddleware">>
Handled(handler, calls) == Stopped \o <<handler>> \o calls

\* multer's diskStorage: the path the uploaded file is stored at
StorePath == CHOOSE path \in 1..(Cardinality(disk) + 1) : path \notin disk

\* the rest of the handler after the loop. The store is not transactional:
\* a batch that passed validation is written document by document, and a
\* failure of the store after `written` documents leaves those in the
\* collection. readFails: the read stream of the file fails, which the outer
\* catch receives.
UploadOutcome(u, file, gate, loop, written, readFails) ==
  /\ Len(logs) + Len(loop.parsedLogs) <= MaxLogs
  /\ IF gate # NoResponse
     THEN resp' = gate /\ logs' = logs /\ disk' = disk /\ trace' = Stopped
     ELSE IF ~file.present
     THEN /\ resp' = Failure(400, "No file uploaded")
          /\ logs' = logs /\ disk' = disk
          /\ trace' = Handled("router.post('/upload')", <<>>)
     ELSE IF readFails
     THEN /\ resp' = Failure(500, "Failed to process uploaded file")
          /\ logs' = logs /\ disk' = disk
          /\ trace' = Handled("router.post('/upload')", <<"fs.unlinkSync">>)
     ELSE IF Len(loop.parsedLogs) > 0 /\ insertManyRejects(loop.parsedLogs)
     THEN /\ resp' = Failure(500, "Failed to save logs to database")
          /\ logs' = logs /\ disk' = disk \cup {StorePath}
          /\ trace' = Handled("router.post('/upload')", <<"Log.insertMany">>)
     ELSE IF written < Len(loop.parsedLogs)
     THEN /\ resp' = Failure(500, "Failed to save logs to database")
          /\ logs' = insertMany(SubSeq(loop.parsedLogs, 1, written))
          /\ disk' = disk \cup {StorePath}
          /\ trace' = Handled("router.post('/upload')", <<"Log.insertMany">>)
     ELSE /\ logs' = (IF Len(loop.parsedLogs) > 0 THEN insertMany(loop.parsedLogs) ELSE logs)
          /\ disk' = disk
          /\ trace' = Handled("router.post('/upload')",
                              IF Len(loop.parsedLogs) > 0
                              THEN <<"Log.insertMany", "fs.unlinkSync">>
                              ELSE <<"fs.unlinkSync">>)
          /\ resp' = [Success(200, "File processed successfully") EXCEPT
                        !.stats = [total_lines |-> Len(file.lines),
                                   parsed_logs |-> Len(loop.parsedLogs),
                                   error_count |-> loop.errorCount,
                                   file_name |-> file.originalname]]

\* upload.single('file') stores the file once the middlewares let the request
\* through, then the handler runs
Upload(u, file) ==
  \E written \in 0..MaxLines, readFails \in BOOLEAN :
    /\ pc = "idle"
    /\ Cardinality(disk) < MaxFiles
    /\ pc' = "responded"
    /\ req' = Request("upload", u,
                      IF file.present /\ roleCheckMiddleware(u, "POST", "/logs/upload") = NoResponse
                      THEN [file EXCEPT !.path = StorePath] ELSE file,
                      0, NoBody, NoQuery)
    /\ UNCHANGED <<now, input, output, http, frontend>>
    /\ UploadOutcome(u, file, roleCheckMiddleware(u, "POST", "/logs/upload"),
                     LoopResult(Steps(file, NonBlankSeq(file.lines), u, now)),
                     written, readFails)

\* the client takes the response; the server is ready for the next request
ClientReceives ==
  /\ pc = "responded"
  /\ pc' = "idle"
  /\ req' = NoRequest
  /\ resp' = NoResponse
  /\ trace' = <<>>
  /\ http' = NoHttp
  /\ UNCHANGED <<logs, now, input, output, disk, frontend>>

RECURSIVE SeqsUpTo(_, _)
SeqsUpTo(S, n) ==
  IF n = 0 THEN {<<>>}
  ELSE LET shorter == SeqsUpTo(S, n - 1)
       IN shorter \cup {Append(q, x) : q \in shorter, x \in S}

\* no file, or a file of up to MaxLines lines
UploadRequest ==
  \E u \in Users,
     file \in {NoFile} \cup
            {File("app.log", ls) :
               ls \in SeqsUpTo({LineJsonUpper, LineJsonNull, LineSyslogWarning,
                                LineGarbage, LineBlank}, MaxLines)} :
    Upload(u, file)

\* a file of one syslog line, or no file
SyslogUploadRequest ==
  \E u \in Users, file \in {NoFile, File("sys.log", <<LineSyslogWarning>>)} :
    Upload(u, file)

\* a file of one line, any line of the corpus
ParseRequest == \E u \in Users, line \in Lines : Upload(u, File("one.log", <<line>>))

(* ------------------------------ GET /logs ------------------------------ *)
\* the texts of the requests that are integers
Numerals == {"0", "1", "2", "3", "5", "10", "100", "101", "-1", "500"}

\* the upper limit taken as exclusive of the next integer
isIntBelowNext(v, lo, hi) ==
  v.t = "str" /\ v.s \in Numerals /\ ParseInt(v.s) >= lo /\ ParseInt(v.s) <= hi + 1

\* express-validator isInt({min, max})
isIntBetween(v, lo, hi) ==
  v.t = "str" /\ v.s \in Numerals /\ ParseInt(v.s) >= lo /\ ParseInt(v.s) <= hi

\* new Date(text) for the ISO 8601 texts that occur in requests
\* (0 when the text is no date)
IsoDate(text) ==
  CASE text = "2024-03-15T12:00:01Z" -> 1
    [] text = "2024-03-15T12:00:04Z" -> 4
    [] text = "2024-03-15T12:00:05Z" -> 5
    [] OTHER -> 0
isISO8601(v) == v.t = "str" /\ IsoDate(v.s) # 0

\* new RegExp(pattern, 'i').test(text) for the search texts of the requests
\* and the texts of the stored fields
RegexTestI(pattern, text) ==
  <<pattern, text>> \in
    {<<"BOO", "boom">>, <<"json", "json_lines">>, <<"o", "boom">>,
     <<"o", "ok">>, <<"o", "json_lines">>, <<"o", "syslog">>}

\* query(name).optional(): an absent parameter is not validated
Optional(v, valid) == v.t = "undefined" \/ valid

\* the validation chain of GET /: the names of the invalid parameters
QueryErrors(q) ==
  {name \in {"level", "format", "start_date", "end_date", "limit", "offset"} :
     ~ CASE name = "level" ->
              Optional(q.level, q.level.t = "str" /\ q.level.s \in LogLevelValues)
         [] name = "format" ->
              Optional(q.format, q.format.t = "str" /\ q.format.s \in LogFormatValues)
         [] name = "start_date" -> Optional(q.start_date, isISO8601(q.start_date))
         [] name = "end_date" -> Optional(q.end_date, isISO8601(q.end_date))
         [] name = "limit" -> Optional(q.limit, isIntBetween(q.limit, 1, 100))
         [] name = "offset" -> Optional(q.offset, q.offset.t = "str" /\ q.offset.s \in Numerals
                                                   /\ ParseInt(q.offset.s) >= 0)}

\* const { limit = 10, offset = 0 } = req.query, then parseInt
DefaultLimit == 10
DefaultOffset == 0
LimitOf(q) == IF q.limit.t = "undefined" THEN DefaultLimit ELSE ParseInt(q.limit.s)
OffsetOf(q) == IF q.offset.t = "undefined" THEN DefaultOffset ELSE ParseInt(q.offset.s)

\* the filter with the start date as an exclusive bound
MatchesQueryAfterStart(log, u, q) ==
  /\ log.organizationID = u.organizationID
  /\ Truthy(q.level) => log.level = ToLowerCase(q.level.s)
  /\ Truthy(q.format) => log.format = q.format.s
  /\ Truthy(q.start_date) => log.timestamp > IsoDate(q.start_date.s)
  /\ Truthy(q.end_date) => log.timestamp <= IsoDate(q.end_date.s)
  /\ Truthy(q.search) =>
       \/ RegexTestI(q.search.s, log.message)
       \/ RegexTestI(q.search.s, log.format)
       \/ (log.meta.t = "str" /\ RegexTestI(q.search.s, log.meta.s))

\* the filter without the organizationID condition
MatchesQueryAnyOrganization(log, u, q) ==
  /\ Truthy(q.level) => log.level = ToLowerCase(q.level.s)
  /\ Truthy(q.format) => log.format = q.format.s
  /\ Truthy(q.start_date) => log.timestamp >= IsoDate(q.start_date.s)
  /\ Truthy(q.end_date) => log.timestamp <= IsoDate(q.end_date.s)
  /\ Truthy(q.search) =>
       \/ RegexTestI(q.search.s, log.message)
       \/ RegexTestI(q.search.s, log.format)
       \/ (log.meta.t = "str" /\ RegexTestI(q.search.s, log.meta.s))

\* the MongoDB filter built from the request: organizationID always, then
\* level, format, the timestamp range and the $or of the text search
MatchesQuery(log, u, q) ==
  /\ log.organizationID = u.organizationID
  /\ Truthy(q.level) => log.level = ToLowerCase(q.level.s)
  /\ Truthy(q.format) => log.format = q.format.s
  /\ Truthy(q.start_date) => log.timestamp >= IsoDate(q.start_date.s)
  /\ Truthy(q.end_date) => log.timestamp <= IsoDate(q.end_date.s)
  /\ Truthy(q.search) =>
       \/ RegexTestI(q.search.s, log.message)
       \/ RegexTestI(q.search.s, log.format)
       \/ (log.meta.t = "str" /\ RegexTestI(q.search.s, log.meta.s))

\* .sort({ timestamp: -1 }): newest first, equal timestamps in insertion order
RECURSIVE InsertSorted(_, _)
InsertSorted(sorted, log) ==
  IF sorted = <<>> THEN <<log>>
  ELSE IF Head(sorted).timestamp >= log.timestamp
  THEN <<Head(sorted)>> \o InsertSorted(Tail(sorted), log)
  ELSE <<log>> \o sorted
RECURSIVE SortByTimestampDesc(_)
SortByTimestampDesc(q) ==
  IF q = <<>> THEN <<>>
  ELSE InsertSorted(SortByTimestampDesc(SubSeq(q, 1, Len(q) - 1)), q[Len(q)])

\* Log.find(query).sort({ timestamp: -1 })
Find(u, q) == SortByTimestampDesc(SelectSeq(logs, LAMBDA log : MatchesQuery(log, u, q)))

\* tags.filter(tag => tag && tag.trim() !== '')
ValidTags(tags) == SelectSeq(tags, LAMBDA tg : tg # "" /\ tg # " ")

\* some tag matches instead of every tag
MatchesSomeTag(log, validTags) ==
  /\ log.meta.t \in {"obj", "arr"}
  /\ \E i \in 1..Len(validTags) :
       \/ validTags[i] \in Keys(log.meta.kv)
       \/ \E j \in 1..Len(log.meta.kv) : log.meta.kv[j].v.s = validTags[i]

\* the tag filter applied in JavaScript: every non-blank tag is a key of meta
\* or the string of one of its values
MatchesTags(log, validTags) ==
  /\ log.meta.t \in {"obj", "arr"}
  /\ \A i \in 1..Len(validTags) :
       \/ validTags[i] \in Keys(log.meta.kv)
       \/ \E j \in 1..Len(log.meta.kv) : log.meta.kv[j].v.s = validTags[i]

TagFilter(found, tags) ==
  IF Len(ValidTags(tags)) > 0
  THEN SelectSeq(found, LAMBDA log : MatchesTags(log, ValidTags(tags)))
  ELSE found

Min(a, b) == IF a <= b THEN a ELSE b
Max(a, b) == IF a >= b THEN a ELSE b

\* the requested offset used as it is
SafeOffsetUnclamped(offset, totalLogs) == offset

\* Math.min(parseInt(offset), Math.max(totalLogs - 1, 0))
SafeOffset(offset, totalLogs) == Min(offset, Max(totalLogs - 1, 0))

\* the slice taken one position further
SliceFromNext(q, from, to) == SubSeq(q, from + 2, Min(to + 1, Len(q)))

\* Array.prototype.slice(from, to)
Slice(q, from, to) == SubSeq(q, from + 1, Min(to, Len(q)))

Query(u, q) ==
  LET errors == QueryErrors(q)
      matching == TagFilter(Find(u, q), q.tag)
      totalLogs == Len(matching)
      limit == LimitOf(q)
      offset == OffsetOf(q)
      safeOffset == SafeOffset(offset, totalLogs)
      paginatedLogs == Slice(matching, safeOffset, safeOffset + limit)
  IN /\ pc = "idle"
     /\ pc' = "responded"
     /\ req' = Request("query", u, NoFile, 0, NoBody, q)
     /\ UNCHANGED <<logs, now, input, output, disk, http, frontend>>
     /\ trace' = Handled("router.get('/')",
                         IF errors # {} THEN <<>> ELSE <<"Log.find">>)
     /\ IF errors # {}
        THEN resp' = [Failure(400, "Validation errors") EXCEPT !.errors = errors]
        ELSE resp' = [Success(200, "") EXCEPT
                        !.logs = paginatedLogs,
                        \* total_pages: Math.ceil(totalLogs / limit)
                        !.pagination = [offset |-> offset, limit |-> limit,
                                        total_pages |-> (totalLogs + limit - 1) \div limit],
                        !.total_count = totalLogs]

(* ---------------------------- POST /ingest ----------------------------- *)
\* notEmpty() that lets the empty string through
notEmptyOrBlank(v) == v.t \notin {"undefined", "null"}

\* express-validator notEmpty()
notEmpty(v) == v.t \notin {"undefined", "null"} /\ v.s # ""

\* the validation chain of POST /ingest: the names of the invalid fields
IngestErrors(body) ==
  {name \in {"level", "service", "message", "format", "meta"} :
     ~ CASE name = "level" ->
              Get(body, "level").t = "str" /\ Get(body, "level").s \in LogLevelValues
         [] name = "service" -> notEmpty(Get(body, "service"))
         [] name = "message" -> notEmpty(Get(body, "message"))
         [] name = "format" ->
              Get(body, "format").t = "str" /\ Get(body, "format").s \in LogFormatValues
         [] name = "meta" -> Optional(Get(body, "meta"), Get(body, "meta").t = "obj")}

Ingest(u, body) ==
  LET gate == roleCheckMiddleware(u, "POST", "/logs/ingest")
      level == Get(body, "level")
      meta == IF Get(body, "meta").t = "undefined" THEN Obj(<<>>) ELSE Get(body, "meta")
      log == Doc(now, ToLowerCase(level.s), Get(body, "service"), Get(body, "message"),
                 Get(body, "format").s, u.organizationID, meta, level.s)
  IN /\ pc = "idle"
     /\ Len(logs) < MaxLogs
     /\ pc' = "responded"
     /\ req' = Request("ingest", u, NoFile, 0, body, NoQuery)
     /\ UNCHANGED <<now, input, output, disk, http, frontend>>
     /\ trace' = IF gate # NoResponse THEN Stopped
                 ELSE Handled("router.post('/ingest')",
                              IF IngestErrors(body) # {} THEN <<>> ELSE <<"log.save">>)
     /\ IF gate # NoResponse
        THEN resp' = gate /\ logs' = logs
        ELSE IF IngestErrors(body) # {}
        THEN /\ resp' = [Failure(400, "Validation errors") EXCEPT
                           !.errors = IngestErrors(body)]
             /\ logs' = logs
        ELSE IF ~ValidLog(log)
        THEN resp' = Failure(500, "Failed to create log") /\ logs' = logs
        ELSE /\ logs' = insertMany(<<log>>)
             /\ resp' = [Success(201, "Log created successfully") EXCEPT
                           !.log = <<logs'[Len(logs')]>>]

(* --------------------------- /logs/:log_id ----------------------------- *)
\* param('log_id').isMongoId(): identifier 0 stands for a malformed one
isMongoId(id) == id # 0

\* Log.findById(id): the position of the document, 0 when there is none
FindById(id) ==
  IF \E i \in 1..Len(logs) : logs[i]._id = id
  THEN CHOOSE i \in 1..Len(logs) : logs[i]._id = id
  ELSE 0

GetById(u, id) ==
  /\ pc = "idle"
  /\ pc' = "responded"
  /\ req' = Request("get", u, NoFile, id, NoBody, NoQuery)
  /\ UNCHANGED <<logs, now, input, output, disk, http, frontend>>
  /\ trace' = Handled("router.get('/:log_id')",
                      IF ~isMongoId(id) THEN <<>> ELSE <<"Log.findById">>)
  /\ IF ~isMongoId(id)
     THEN resp' = [Failure(400, "Validation errors") EXCEPT !.errors = {"log_id"}]
     ELSE IF FindById(id) = 0
     THEN resp' = Failure(404, "Log not found")
     ELSE resp' = [Success(200, "") EXCEPT !.log = <<logs[FindById(id)]>>]

\* the paths of logSchema
SchemaPaths ==
  {"timestamp", "level", "service", "organizationID", "message", "format",
   "original_level", "meta"}

\* can Mongoose cast the value to the type of the path
CanCast(path, v) ==
  CASE path = "timestamp" -> v.t \in {"null", "undefined"} \/ (v.t = "str" /\ IsoDate(v.s) # 0)
    [] path = "organizationID" ->
         \/ v.t \in {"null", "undefined"}
         \/ v.t = "str" /\ v.s \in {u.organizationID : u \in Users}
    [] path = "meta" -> TRUE
    [] OTHER -> CanCastString(v)

\* doc[path] = v: the document with the value of one path replaced
SetPath(log, path, v) ==
  CASE path = "timestamp" ->
         [log EXCEPT !.timestamp = IF v.t = "str" THEN IsoDate(v.s) ELSE 0]
    [] path = "organizationID" ->
         [log EXCEPT !.organizationID = IF v.t = "str" THEN v.s ELSE ""]
    [] path = "meta" -> [log EXCEPT !.meta = v]
    [] path = "level" -> [log EXCEPT !.level = CastString(v)]
    [] path = "service" -> [log EXCEPT !.service = CastString(v)]
    [] path = "message" -> [log EXCEPT !.message = CastString(v)]
    [] path = "format" -> [log EXCEPT !.format = CastString(v)]
    [] path = "original_level" -> [log EXCEPT !.original_level = CastString(v)]

\* Object.assign(log, body): every key of the body that is a schema path is set
RECURSIVE AssignPaths(_, _)
AssignPaths(log, pairs) ==
  IF pairs = <<>> THEN log
  ELSE AssignPaths(IF Head(pairs).k \in SchemaPaths
                   THEN SetPath(log, Head(pairs).k, Head(pairs).v) ELSE log,
                   Tail(pairs))

\* log.save() of a loaded document: casts and validators of the schema
SaveRejects(log, pairs) ==
  \/ \E i \in 1..Len(pairs) :
       pairs[i].k \in SchemaPaths /\ ~CanCast(pairs[i].k, pairs[i].v)
  \/ log.timestamp = 0
  \/ log.level \notin LogLevelValues
  \/ log.service = ""
  \/ log.format \notin LogFormatValues
  \/ log.organizationID = ""

Patch(u, id, body) ==
  LET gate == roleCheckMiddleware(u, "PATCH", "/logs/" \o ToString(id))
      at == FindById(id)
      log == AssignPaths(logs[at], body.kv)
  IN /\ pc = "idle"
     /\ pc' = "responded"
     /\ req' = Request("patch", u, NoFile, id, body, NoQuery)
     /\ UNCHANGED <<now, input, output, disk, http, frontend>>
     /\ trace' = IF gate # NoResponse THEN Stopped
                 ELSE Handled("router.patch('/:log_id')",
                              IF ~isMongoId(id) THEN <<>>
                              ELSE IF at = 0 THEN <<"Log.findById">>
                              ELSE <<"Log.findById", "log.save">>)
     /\ IF gate # NoResponse
        THEN resp' = gate /\ logs' = logs
        ELSE IF ~isMongoId(id)
        THEN /\ resp' = [Failure(400, "Validation errors") EXCEPT !.errors = {"log_id"}]
             /\ logs' = logs
        ELSE IF at = 0
        THEN resp' = Failure(404, "Log not found") /\ logs' = logs
        ELSE IF SaveRejects(log, body.kv)
        THEN resp' = Failure(500, "Failed to update log") /\ logs' = logs
        ELSE /\ logs' = [logs EXCEPT ![at] = log]
             /\ resp' = Success(200, "Log patched successfully")

Put(u, id, body) ==
  LET gate == roleCheckMiddleware(u, "PUT", "/logs/" \o ToString(id))
      at == FindById(id)
      message == Get(body, "message")
      log == SetPath(logs[at], "message", message)
  IN /\ pc = "idle"
     /\ pc' = "responded"
     /\ req' = Request("put", u, NoFile, id, body, NoQuery)
     /\ UNCHANGED <<now, input, output, disk, http, frontend>>
     /\ trace' = IF gate # NoResponse THEN Stopped
                 ELSE Handled("router.put('/:log_id')",
                              IF ~isMongoId(id) \/ ~notEmpty(message) THEN <<>>
                              ELSE IF at = 0 THEN <<"Log.findById">>
                              ELSE <<"Log.findById", "log.save">>)
     /\ IF gate # NoResponse
        THEN resp' = gate /\ logs' = logs
        ELSE IF ~isMongoId(id) \/ ~notEmpty(message)
        THEN /\ resp' = [Failure(400, "Validation errors") EXCEPT
                           !.errors = {name \in {"log_id", "message"} :
                                         \/ name = "log_id" /\ ~isMongoId(id)
                                         \/ name = "message" /\ ~notEmpty(message)}]
             /\ logs' = logs
        ELSE IF at = 0
        THEN resp' = Failure(404, "Log not found") /\ logs' = logs
        ELSE IF SaveRejects(log, <<KV("message", message)>>)
        THEN resp' = Failure(500, "Failed to update log") /\ logs' = logs
        ELSE /\ logs' = [logs EXCEPT ![at] = log]
             /\ resp' = Success(200, "Log updated successfully")

Delete(u, id) ==
  LET gate == roleCheckMiddleware(u, "DELETE", "/logs/" \o ToString(id))
      at == FindById(id)
  IN /\ pc = "idle"
     /\ pc' = "responded"
     /\ req' = Request("delete", u, NoFile, id, NoBody, NoQuery)
     /\ UNCHANGED <<now, input, output, disk, http, frontend>>
     /\ trace' = IF gate # NoResponse THEN Stopped
                 ELSE Handled("router.delete('/:log_id')",
                              IF ~isMongoId(id) THEN <<>> ELSE <<"Log.findByIdAndDelete">>)
     /\ IF gate # NoResponse
        THEN resp' = gate /\ logs' = logs
        ELSE IF ~isMongoId(id)
        THEN /\ resp' = [Failure(400, "Validation errors") EXCEPT !.errors = {"log_id"}]
             /\ logs' = logs
        ELSE IF at = 0
        THEN resp' = Failure(404, "Log not found") /\ logs' = logs
        ELSE /\ logs' = SelectSeq(logs, LAMBDA l : l._id # id)
             /\ resp' = Success(200, "Log deleted successfully")

\* time passes
Tick ==
  /\ pc = "idle"
  /\ now < MaxNow
  /\ now' = now + 1
  /\ UNCHANGED <<logs, pc, req, resp, input, output, disk, trace, http, frontend>>

(* ------------------------------ requests ------------------------------- *)
\* identifiers in requests: 0 is malformed, the others may or may not exist
Ids == 0..MaxLogs

QueryOf(l, f, tg, sd, ed, se, lim, off) ==
  [level |-> l, format |-> f, tag |-> tg, start_date |-> sd, end_date |-> ed,
   search |-> se, limit |-> lim, offset |-> off]

\* the query strings of GET /logs:
\*  - filters with the default page;
\*  - pages with and without a level filter;
\*  - tag sets on the default page: a value, a key and a value, a key and a
\*    missing tag, the renderings of a boolean and of a number, another case,
\*    blank tags alone and next to a key;
\*  - queries the validation chain rejects
Queries ==
  {QueryOf(l, f, tg, d[1], d[2], se, Undefined, Undefined) :
     l \in {Undefined, Str("error")}, f \in {Undefined, Str("syslog")},
     tg \in {<<>>, <<"env">>},
     d \in {<<Undefined, Undefined>>, <<Str("2024-03-15T12:00:05Z"), Undefined>>,
            <<Undefined, Str("2024-03-15T12:00:04Z")>>},
     se \in {Undefined, Str("BOO")}}
  \cup
  {QueryOf(l, Undefined, <<>>, Undefined, Undefined, Undefined, lim, off) :
     l \in {Undefined, Str("error")},
     lim \in {Undefined, Str("1"), Str("2")},
     off \in {Undefined, Str("1"), Str("2"), Str("5")}}
  \cup
  {[NoQuery EXCEPT !.tag = tg] :
     tg \in {<<"prod">>, <<"env", "prod">>, <<"env", "staging">>, <<"true">>,
             <<"123">>, <<"ENV">>, <<" ">>, <<"", "env">>}}
  \cup
  {[NoQuery EXCEPT !.level = Str("ERROR")], [NoQuery EXCEPT !.limit = Str("0")],
   [NoQuery EXCEPT !.limit = Str("101")], [NoQuery EXCEPT !.limit = Str("500")],
   [NoQuery EXCEPT !.offset = Str("-1")],
   [NoQuery EXCEPT !.start_date = Str("yesterday")],
   [NoQuery EXCEPT !.end_date = Str("tomorrow"), !.format = Str("xml")]}

\* a meta that is nested
NestedMeta == Obj(<<KV("user", Obj(<<KV("id", Str("7"))>>)), KV("env", Str("prod"))>>)

\* POST /ingest with two valid bodies, one with an alias level and no message,
\* one with an empty service and an unknown format, one with nothing
IngestRequest ==
  \E u \in Users,
     body \in
       {Obj(<<KV("level", Str("error")), KV("service", Str("api")),
              KV("message", Str("boom")), KV("format", Str("json_lines")),
              KV("meta", Obj(<<KV("env", Str("prod")), KV("debug", Bool("true")),
                               KV("code", Num("123"))>>))>>),
        Obj(<<KV("level", Str("info")), KV("service", Str("web")),
              KV("message", Str("ok")), KV("format", Str("syslog"))>>),
        Obj(<<KV("level", Str("warning")), KV("service", Str("api")),
              KV("format", Str("json_lines"))>>),
        Obj(<<KV("level", Str("error")), KV("service", Str("")),
              KV("message", Str("boom")), KV("format", Str("xml"))>>),
        Obj(<<>>)} :
    Ingest(u, body)
QueryRequest == \E u \in Users, q \in Queries : Query(u, q)
GetByIdRequest == \E u \in Users, id \in Ids : GetById(u, id)
\* PATCH with a new level, a new owner and timestamp, an unknown level
PatchRequest ==
  \E u \in Users, id \in Ids,
     body \in
       {Obj(<<KV("level", Str("warn"))>>),
        Obj(<<KV("organizationID", Str("orgB")),
              KV("timestamp", Str("2024-03-15T12:00:01Z"))>>),
        Obj(<<KV("level", Str("bogus"))>>)} :
    Patch(u, id, body)
\* PUT with a new message, with no message
PutRequest ==
  \E u \in Users, id \in Ids,
     body \in {Obj(<<KV("message", Str("edited"))>>), Obj(<<>>)} :
    Put(u, id, body)
DeleteRequest == \E u \in Users, id \in Ids : Delete(u, id)
\* POST /ingest with a nested meta
MetaIngestRequest ==
  \E u \in Users,
     body \in
       {Obj(<<KV("level", Str("error")), KV("service", Str("api")),
              KV("message", Str("boom")), KV("format", Str("json_lines")),
              KV("meta", NestedMeta)>>)} :
    Ingest(u, body)
\* PATCH with a nested meta, with a new level
MetaPatchRequest ==
  \E u \in Users, id \in Ids,
     body \in {Obj(<<KV("meta", NestedMeta)>>), Obj(<<KV("level", Str("warn"))>>)} :
    Patch(u, id, body)

(* ------------------------ app.js: the middlewares --------------------- *)
(* The Authorization header is <<>> when absent, else <<scheme, token>>.   *)
(* verifyToken (utils/jwt) is not part of the sources: it is modelled by   *)
(* its three outcomes for the tokens of the requests, a payload, a         *)
(* TokenExpiredError and a JsonWebTokenError.                              *)
verifyToken(token) ==
  CASE token = "expired" -> [threw |-> TRUE, name |-> "TokenExpiredError", sub |-> ""]
    [] token = "garbage" -> [threw |-> TRUE, name |-> "JsonWebTokenError", sub |-> ""]
    [] token = "nosub" -> [threw |-> FALSE, name |-> "", sub |-> ""]
    [] OTHER -> [threw |-> FALSE, name |-> "", sub |-> token]

\* User.findOne({email, _id: sub}): the user, NoUser when there is none
FindUser(sub) ==
  IF \E user \in Users : user.username = sub
  THEN CHOOSE user \in Users : user.username = sub
  ELSE NoUser

\* the middleware without the 404 of a user that is not found
jwtValidationWithoutLookup(method, path, authorization) ==
  IF Exempt(method, path) THEN [resp |-> NoResponse, userData |-> NoUser]
  ELSE IF authorization = <<>> \/ authorization[1] # "Bearer"
  THEN [resp |-> Failure(401, "Bearer authentication required"), userData |-> NoUser]
  ELSE IF verifyToken(authorization[2]).threw
  THEN [resp |-> Failure(401, "Invalid token"), userData |-> NoUser]
  ELSE IF verifyToken(authorization[2]).sub = ""
  THEN [resp |-> Failure(401, "Invalid authentication token - no username"),
        userData |-> NoUser]
  ELSE [resp |-> NoResponse, userData |-> FindUser(verifyToken(authorization[2]).sub)]

\* jwtValidationMiddleware: the response that ends the request, or NoResponse
\* and the user left in res.locals.userData
jwtValidationMiddleware(method, path, authorization) ==
  IF Exempt(method, path) THEN [resp |-> NoResponse, userData |-> NoUser]
  ELSE IF authorization = <<>> \/ authorization[1] # "Bearer"
  THEN [resp |-> Failure(401, "Bearer authentication required"), userData |-> NoUser]
  ELSE IF verifyToken(authorization[2]).threw
  THEN [resp |-> Failure(401, IF verifyToken(authorization[2]).name = "TokenExpiredError"
                              THEN "Token has expired" ELSE "Invalid token"),
        userData |-> NoUser]
  ELSE IF verifyToken(authorization[2]).sub = ""
  THEN [resp |-> Failure(401, "Invalid authentication token - no username"),
        userData |-> NoUser]
  ELSE IF FindUser(verifyToken(authorization[2]).sub) = NoUser
  THEN [resp |-> Failure(404, "User not found"), userData |-> NoUser]
  ELSE [resp |-> NoResponse, userData |-> FindUser(verifyToken(authorization[2]).sub)]

\* what app.js hands the request to after the middlewares
Route(method, path) ==
  IF method = "GET" /\ path \in {"/health", "/health/"} THEN "app.get('/health')"
  ELSE IF path \in {"/auth/login", "/auth/signup"} THEN "authRoutes"
  ELSE IF path \in {"/logs", "/logs/upload"} THEN "logsRoutes"
  ELSE "app.use('*')"

\* a request through app.js: jwtValidationMiddleware, roleCheckMiddleware, then
\* the route. What the routers answer is the matter of the actions above; here
\* a router that received the request answers 200.
Served(method, path, jwt, gate) ==
  /\ req' = Request(method, jwt.userData, NoFile, 0, NoBody, NoQuery)
  /\ IF jwt.resp # NoResponse
     THEN resp' = jwt.resp /\ trace' = <<"jwtValidationMiddleware">>
     ELSE IF gate # NoResponse
     THEN resp' = gate /\ trace' = Stopped
     ELSE /\ trace' = Handled(Route(method, path), <<>>)
          /\ resp' = IF Route(method, path) = "app.use('*')"
                     THEN Failure(404, "Route not found")
                     ELSE Success(200, "")

Serve(method, path, authorization) ==
  /\ pc = "idle"
  /\ pc' = "responded"
  /\ http' = [method |-> method, path |-> path, authorization |-> authorization]
  /\ UNCHANGED <<logs, now, input, output, disk, frontend>>
  /\ Served(method, path, jwtValidationMiddleware(method, path, authorization),
            roleCheckMiddleware(jwtValidationMiddleware(method, path, authorization).userData,
                                method, path))

\* the requests: every method, exempt and protected paths, and the header
\* absent, of another scheme, with a token that is malformed, expired, without
\* a subject, of a user that is gone, of a manager and of a viewer
ServeRequest ==
  \E method \in {"GET", "POST", "PUT", "PATCH", "DELETE", "OPTIONS"},
     path \in {"/health", "/health/", "/auth/login", "/auth/signup", "/logs",
               "/logs/upload", "/nothing"},
     authorization \in
       {<<>>, <<"Basic", "mgrA">>, <<"bearer", "mgrA">>, <<"Bearer", "garbage">>,
        <<"Bearer", "expired">>, <<"Bearer", "nosub">>, <<"Bearer", "ghost">>,
        <<"Bearer", "mgrA">>, <<"Bearer", "viewA">>} :
    Serve(method, path, authorization)

(* ------------------- SearchEngine.tsx: the dashboard ------------------- *)
\* the delays of the debounce timers, in tenths of a second
SearchDelay == 5
LevelDelay == 3
DateDelay == 5
\* most calls of fetchLogs awaiting a response, most pages to choose from,
\* and most changes the user makes
MaxInFlight == 2
MaxPages == 2
MaxEdits == 3

\* handleParamChange: the parameters handed to setSearchParams, built from
\* the searchParams of the render the handler belongs to
handleParamChange(searchParams, param, value) ==
  [searchParams EXCEPT ![param] = value,
                       !.offset = IF param = "limit" THEN searchParams.offset ELSE 0]

\* value || undefined
OrUndefined(value) == IF Truthy(value) THEN value ELSE Undefined

\* a sequence without its i-th element
Without(seq, i) == SubSeq(seq, 1, i - 1) \o SubSeq(seq, i + 1, Len(seq))

\* setSearchFilters with a new object: the state changes and the effect on
\* [searchFilters] calls fetchLogs, which clears the error and sends GET /logs
\* with the new filters; waiting are the requests still unanswered
setSearchFilters(newFilters, waiting) ==
  /\ Len(waiting) < MaxInFlight
  /\ searchFilters' = newFilters
  /\ inflight' = Append(waiting, newFilters)
  /\ fetchError' = FALSE

\* clearTimeout(ref.current); ref.current = setTimeout(() =>
\* handleParamChange(param, value), delay): the callback keeps the
\* searchParams of the render that scheduled it
setTimeout(ref, param, value, delay) ==
  /\ edits < MaxEdits
  /\ edits' = edits + 1
  /\ timers' = Append(SelectSeq(timers, LAMBDA timer : timer.ref # ref),
                      [ref |-> ref, param |-> param, value |-> value,
                       searchParams |-> searchFilters, left |-> delay])
  /\ UNCHANGED <<searchFilters, inflight, logsData, fetchError, backend>>

\* the user types in the search box
debouncedSearchChange(value) ==
  /\ entered' = [entered EXCEPT !.search = value]
  /\ setTimeout("searchTimeoutRef", "search", OrUndefined(value), SearchDelay)

\* the user picks a level
debouncedLevelChange(value) ==
  /\ entered' = [entered EXCEPT !.level = value]
  /\ setTimeout("levelTimeoutRef", "level", OrUndefined(value), LevelDelay)

\* the user picks a start or an end date
debouncedDateChange(param, value) ==
  /\ entered' = [entered EXCEPT ![param] = value]
  /\ setTimeout("dateTimeoutRef", param, value, DateDelay)

\* a tenth of a second passes with no timer due
Elapse ==
  /\ timers # <<>>
  /\ \A i \in 1..Len(timers) : timers[i].left > 0
  /\ timers' = [i \in 1..Len(timers) |-> [timers[i] EXCEPT !.left = @ - 1]]
  /\ UNCHANGED <<searchFilters, entered, inflight, logsData, fetchError, edits, backend>>

\* a timer that is due runs its callback
Fire ==
  \E i \in 1..Len(timers) :
    /\ timers[i].left = 0
    /\ timers' = Without(timers, i)
    /\ setSearchFilters(handleParamChange(timers[i].searchParams, timers[i].param,
                                          timers[i].value), inflight)
    /\ UNCHANGED <<entered, logsData, edits, backend>>

\* the user picks another number of items per page
ChangeLimit(limit) ==
  /\ limit # searchFilters.limit
  /\ edits < MaxEdits
  /\ edits' = edits + 1
  /\ setSearchFilters(handleParamChange(searchFilters, "limit", limit), inflight)
  /\ UNCHANGED <<entered, timers, logsData, backend>>

\* handlePageChange: the user picks a page of the list on display
handlePageChange(page) ==
  /\ logsData # <<>>
  /\ edits < MaxEdits
  /\ edits' = edits + 1
  /\ setSearchFilters([searchFilters EXCEPT !.offset = (page - 1) * searchFilters.limit],
                      inflight)
  /\ UNCHANGED <<entered, timers, logsData, backend>>

\* fetchLogs after its await: the response to a request arrives, with logs,
\* with none, or as a rejection; the filters are those of the render that
\* called fetchLogs
fetchLogs(i, outcome) ==
  /\ i \in 1..Len(inflight)
  /\ UNCHANGED <<entered, timers, edits, backend>>
  /\ IF outcome = "rejected"
     THEN /\ fetchError' = TRUE
          /\ inflight' = Without(inflight, i)
          /\ UNCHANGED <<searchFilters, logsData>>
     ELSE IF outcome = "empty" /\ inflight[i].offset > 0
     THEN /\ setSearchFilters([searchFilters EXCEPT !.offset = 0], Without(inflight, i))
          /\ UNCHANGED logsData
     ELSE /\ logsData' = <<[filters |-> inflight[i], empty |-> outcome = "empty"]>>
          /\ inflight' = Without(inflight, i)
          /\ UNCHANGED <<searchFilters, fetchError>>

\* what the user does, and what comes back from the service
UserEdits ==
  \/ \E value \in {Str(""), Str("boom")} : debouncedSearchChange(value)
  \/ \E value \in {Str(""), Str("error")} : debouncedLevelChange(value)
  \/ \E param \in {"start_date", "end_date"}, value \in {Undefined, Str("2024-03-15T12:34:56.000Z")} :
       debouncedDateChange(param, value)
UserPages ==
  \/ \E limit \in {10, 25} : ChangeLimit(limit)
  \/ \E page \in 1..MaxPages : handlePageChange(page)
Responses ==
  \E i \in 1..MaxInFlight, outcome \in {"logs", "empty", "rejected"} : fetchLogs(i, outcome)

\* the dashboard mounted: the effect has called fetchLogs once
InitDashboard ==
  /\ logs = <<>>
  /\ now = 4
  /\ pc = "idle"
  /\ req = NoRequest
  /\ resp = NoResponse
  /\ input = Null
  /\ output = <<>>
  /\ disk = {}
  /\ trace = <<>>
  /\ http = NoHttp
  /\ searchFilters = InitialFilters
  /\ entered = InitialInputs
  /\ timers = <<>>
  /\ inflight = <<InitialFilters>>
  /\ logsData = <<>>
  /\ fetchError = FALSE
  /\ edits = 0

(* --------------------- flattenObject on its own ------------------------ *)
\* largest number of key/value pairs of an input, all levels together
MaxPairs == 4

MetaKeys == {"a", "b"}

\* the key/value lists of the objects of at most n pairs over MetaKeys, keys
\* distinct within one object, nested to any depth the pairs allow; the
\* values flattenObject copies are a string, null and an array holding an object
RECURSIVE Objects(_)
Objects(n) ==
  IF n = 0 THEN {<<>>}
  ELSE {<<>>} \cup
       {o \in {<<KV(k, v)>> \o rest :
                 k \in MetaKeys,
                 v \in {Str("x"), Null,
                        Arr("[object Object]", <<KV("0", Obj(<<KV("a", Str("x"))>>))>>)},
                 rest \in Objects(n - 1)} :
          Head(o).k \notin Keys(Tail(o))} \cup
       {o \in UNION {{<<KV(k, Obj(inner))>> \o rest :
                        k \in MetaKeys, inner \in Objects(m),
                        rest \in Objects(n - 1 - m)} : m \in 0..(n - 1)} :
          Head(o).k \notin Keys(Tail(o))}

\* flattenObject applied to the input, then to its own result
Flatten ==
  /\ input.t = "obj"
  /\ Len(output) < 2
  /\ output' = Append(output,
                      flattenObject(IF output = <<>> THEN input ELSE output[Len(output)]))
  /\ UNCHANGED <<logs, now, pc, req, resp, input, disk, trace, http, frontend>>

InitFlatten ==
  /\ logs = <<>>
  /\ now = 4
  /\ pc = "idle"
  /\ req = NoRequest
  /\ resp = NoResponse
  /\ input \in {Obj(o) : o \in Objects(MaxPairs)}
  /\ output = <<>>
  /\ disk = {}
  /\ trace = <<>>
  /\ http = NoHttp
  /\ searchFilters = InitialFilters
  /\ entered = InitialInputs
  /\ timers = <<>>
  /\ inflight = <<>>
  /\ logsData = <<>>
  /\ fetchError = FALSE
  /\ edits = 0

(* --------------------------- specifications ---------------------------- *)
\* the whole service
Next ==
  \/ UploadRequest
  \/ IngestRequest
  \/ QueryRequest
  \/ GetByIdRequest
  \/ PatchRequest
  \/ PutRequest
  \/ DeleteRequest
  \/ Tick
  \/ ClientReceives

Spec == Init /\ [][Next]_vars

\* the service restricted to file uploads
SpecUpload == Init /\ [][UploadRequest \/ ClientReceives]_vars

\* the service restricted to manual creation and queries, with time passing
SpecQuery ==
  Init /\ [][IngestRequest \/ QueryRequest \/ Tick \/ ClientReceives]_vars

\* the service restricted to manual creation and the operations by identifier
SpecById ==
  /\ Init
  /\ [][\/ IngestRequest
        \/ GetByIdRequest
        \/ PatchRequest
        \/ PutRequest
        \/ DeleteRequest
        \/ ClientReceives]_vars

\* the service restricted to uploads of one line
SpecParse == Init /\ [][ParseRequest \/ ClientReceives]_vars

\* the service restricted to the three ways meta reaches the store
SpecMeta ==
  Init /\ [][UploadRequest \/ MetaIngestRequest \/ MetaPatchRequest \/ ClientReceives]_vars

\* the service restricted to the requests that change data
SpecWrites ==
  /\ Init
  /\ [][\/ SyslogUploadRequest
        \/ IngestRequest
        \/ PatchRequest
        \/ PutRequest
        \/ DeleteRequest
        \/ ClientReceives]_vars

\* the middlewares of app.js in front of the routes
SpecAuth == Init /\ [][ServeRequest \/ ClientReceives]_vars

\* the dashboard: edits, timers, page controls and responses
SpecDashboard ==
  InitDashboard /\ [][UserEdits \/ Elapse \/ Fire \/ UserPages \/ Responses]_vars

\* flattenObject applied to nested objects
SpecFlatten == InitFlatten /\ [][Flatten]_vars

(* ----------------------- properties of the upload ---------------------- *)
\* a manager's upload of a file has been answered
UploadAnswered ==
  /\ pc = "responded"
  /\ req.op = "upload"
  /\ req.user.role = Role.MANAGER
  /\ req.file.present

\* the numbers of the lines of the answered upload that are not blank
UploadedLines == NonBlank(req.file.lines)

\* the lines among them that match no grammar or whose parser throws
FailedLines == {n \in UploadedLines : Dispatch(req.file.lines[n], now).threw}

\* the stored entry of line n of the answered upload: the batch is the tail
\* of the collection, one entry per non-blank line, in line order
EntryOfLine(n) ==
  logs[Len(logs) - Cardinality(UploadedLines)
       + Cardinality({i \in UploadedLines : i <= n})]

\* the level text as it is written in the line ("" when the line has none)
RawLevel(line) ==
  IF isJsonLines(line)
  THEN LET v == OrChain(<<Get(line.json[1], "level"), Get(line.json[1], "severity")>>)
       IN IF v.t = "str" THEN v.s ELSE ""
  ELSE IF isSyslog(line)
  THEN (IF ToLowerCase(line.syslog[1].head) \in SyslogLevelTokens
        THEN line.syslog[1].head ELSE "")
  ELSE IF isNginxError(line) THEN line.nginx[1].level
  ELSE ""

\* C1: no line's content makes the upload fail: a manager's upload of a file
\* is answered 200 and the collection ends with one entry of the caller's
\* organization per non-blank line, alias levels included.
C1_UploadNeverFails ==
  UploadAnswered =>
    /\ resp.status = 200
    /\ Len(logs) >= Cardinality(UploadedLines)
    /\ \A n \in UploadedLines :
         EntryOfLine(n).organizationID = req.user.organizationID

\* C2: a successful upload of N non-blank lines of which k fail classification
\* or parsing reports parsed_logs = N and error_count = k.
C2_UploadStatistics ==
  (UploadAnswered /\ resp.status = 200) =>
    /\ resp.stats.parsed_logs = Cardinality(UploadedLines)
    /\ resp.stats.error_count = Cardinality(FailedLines)

\* C3: the entry stored for a failed line n has level error, service
\* "log-parser", format json_lines, message "Failed to parse line <n>: <reason>"
\* and meta with exactly the keys original_line, line_number, file_name.
C3_SyntheticErrorEntry ==
  (UploadAnswered /\ resp.status = 200) =>
    \A n \in FailedLines :
      LET e == EntryOfLine(n)
      IN /\ e.level = "error"
         /\ e.service = "log-parser"
         /\ e.format = LogFormat.JSON_LINES
         /\ e.message = "Failed to parse line " \o ToString(n) \o ": "
                          \o Dispatch(req.file.lines[n], now).error
         /\ Keys(e.meta.kv) = {"original_line", "line_number", "file_name"}

\* C7: the entry the upload builds for any non-blank line carries one of the
\* canonical levels of the LogLevel enum (aliases are folded, not kept).
C7_LevelNormalized ==
  UploadAnswered =>
    \A n \in UploadedLines :
      ProcessLine(req.file.lines[n], n, req.user, req.file.originalname, now)
        .entry.level \in LogLevelValues

\* C8: the original_level stored for a successfully parsed line is the level
\* text as written in the line, before lower-casing.
C8_OriginalLevelPreserved ==
  (UploadAnswered /\ resp.status = 200) =>
    \A n \in UploadedLines \ FailedLines :
      RawLevel(req.file.lines[n]) # "" =>
        EntryOfLine(n).original_level = RawLevel(req.file.lines[n])

(* ----------------------- properties of the query ----------------------- *)
\* a query has been answered with a page
QueryAnswered == pc = "responded" /\ req.op = "query" /\ resp.status = 200

\* the matching entries of the answered query, newest first (the query
\* leaves the collection as it is)
Matching == TagFilter(Find(req.user, req.query), req.query.tag)

\* the requested offset is out of range of a non-empty result
OffsetOutOfRange ==
  /\ QueryAnswered
  /\ Len(Matching) > 0
  /\ OffsetOf(req.query) >= Len(Matching)

\* C4: every entry a query returns belongs to the organization of the caller,
\* whatever the filters and the page asked for.
C4_QueryTenantIsolation ==
  QueryAnswered =>
    \A i \in 1..Len(resp.logs) :
      resp.logs[i].organizationID = req.user.organizationID

\* a page with entries was returned while the collection also holds an entry
\* of another organization
C4_Witness ==
  /\ QueryAnswered
  /\ Len(resp.logs) > 0
  /\ \E i \in 1..Len(logs) : logs[i].organizationID # req.user.organizationID

\* C9 as stated: when the requested offset is out of range of a non-empty
\* result, the page is the first min(limit, total) matching entries.
C9_OffsetResetsToZero ==
  OffsetOutOfRange =>
    resp.logs = SubSeq(Matching, 1, Min(LimitOf(req.query), Len(Matching)))

\* C9 as amended: when the requested offset is out of range of a non-empty
\* result, the page is computed from offset total - 1: it holds exactly the
\* last (oldest) matching entry, and total_pages is ceil(total / limit).
C9_OffsetClampedToLast ==
  OffsetOutOfRange =>
    /\ resp.logs = <<Matching[Len(Matching)]>>
    /\ resp.pagination.total_pages * LimitOf(req.query) >= Len(Matching)
    /\ (resp.pagination.total_pages - 1) * LimitOf(req.query) < Len(Matching)

\* an out-of-range offset on a result of two entries with a limit of two
C9_Witness ==
  /\ OffsetOutOfRange
  /\ Len(Matching) = 2
  /\ LimitOf(req.query) = 2
  /\ Len(resp.logs) = 1

\* C10: the returned logs are the slice of the matching entries that starts
\* at the returned pagination.offset.
C10_ReportedOffsetIsEffective ==
  QueryAnswered =>
    resp.logs = Slice(Matching, resp.pagination.offset,
                      resp.pagination.offset + resp.pagination.limit)

(* ---------------------- properties of the filters ---------------------- *)
\* the parameter is present in the request
Supplied(v) == v.t # "undefined"

\* the tags of the request, and those that are not blank
AllTags(q) == {q.tag[i] : i \in 1..Len(q.tag)}
NonBlankTags(q) == AllTags(q) \ {"", " "}

\* every tag of the set is a key of meta or the string of one of its values
PassesTagSet(log, tags) ==
  \A tag \in tags :
    \E j \in 1..Len(log.meta.kv) :
      log.meta.kv[j].k = tag \/ log.meta.kv[j].v.s = tag

\* the entry is the caller's and satisfies every supplied filter among level,
\* format, the two date bounds and the tags
SatisfiesFilters(log, u, q) ==
  /\ log.organizationID = u.organizationID
  /\ Supplied(q.level) => log.level = q.level.s
  /\ Supplied(q.format) => log.format = q.format.s
  /\ Supplied(q.start_date) => log.timestamp >= IsoDate(q.start_date.s)
  /\ Supplied(q.end_date) => log.timestamp <= IsoDate(q.end_date.s)
  /\ PassesTagSet(log, NonBlankTags(q))

\* the positions of the stored entries that satisfy the filters of the
\* answered query
Satisfying == {i \in 1..Len(logs) : SatisfiesFilters(logs[i], req.user, req.query)}

\* the entry is on the returned page
OnPage(log) == \E k \in 1..Len(resp.logs) : resp.logs[k] = log

\* the answered query asks for the first page and the page holds every match
WholeResult ==
  /\ QueryAnswered
  /\ resp.pagination.offset = 0
  /\ resp.pagination.limit >= Len(logs)

OnlyTags ==
  /\ WholeResult
  /\ Len(req.query.tag) > 0
  /\ \A v \in {req.query.level, req.query.format, req.query.start_date,
               req.query.end_date, req.query.search} : ~Supplied(v)

\* C12 as stated: an entry of the caller passes a non-empty tag set iff every
\* tag of the set is a key of its meta or the string of one of its values.
C12_EveryTagMatches ==
  OnlyTags =>
    \A i \in 1..Len(logs) :
      logs[i].organizationID = req.user.organizationID =>
        (OnPage(logs[i]) <=> PassesTagSet(logs[i], AllTags(req.query)))

\* C12 as amended: blank tags are dropped first; an entry of the caller passes
\* iff every remaining tag is a key of its meta or the string of one of its
\* values (an entry with no meta fails as soon as one tag remains).
C12_EveryNonBlankTagMatches ==
  OnlyTags =>
    \A i \in 1..Len(logs) :
      logs[i].organizationID = req.user.organizationID =>
        (OnPage(logs[i]) <=> PassesTagSet(logs[i], NonBlankTags(req.query)))

\* the tag "true" returns an entry whose meta holds the boolean true, while
\* another entry of the caller, without meta, is left out
C12_Witness ==
  /\ OnlyTags
  /\ req.query.tag = <<"true">>
  /\ \E k \in 1..Len(resp.logs) :
       \E j \in 1..Len(resp.logs[k].meta.kv) : resp.logs[k].meta.kv[j].v = Bool("true")
  /\ \E i \in 1..Len(logs) :
       /\ logs[i].organizationID = req.user.organizationID
       /\ logs[i].meta.kv = <<>>
       /\ ~OnPage(logs[i])

\* the matching entries newer than the entry, and those not older
Newer(log) == {i \in 1..Len(Matching) : Matching[i].timestamp > log.timestamp}
NotOlder(log) == {i \in 1..Len(Matching) : Matching[i].timestamp >= log.timestamp}

\* C13: when the offset is below the number of matching entries, the page
\* holds min(limit, total - offset) distinct matching entries, the k-th of
\* them being the (offset + k)-th newest; total_pages is ceil(total / limit),
\* and 0 when nothing matches.
C13_PageWindow ==
  QueryAnswered =>
    /\ resp.total_count = 0 => resp.pagination.total_pages = 0
    /\ resp.pagination.total_pages * resp.pagination.limit >= resp.total_count
    /\ (resp.pagination.total_pages - 1) * resp.pagination.limit < resp.total_count
    /\ resp.pagination.offset < resp.total_count =>
         /\ Len(resp.logs) =
              Min(resp.pagination.limit, resp.total_count - resp.pagination.offset)
         /\ \A k \in 1..Len(resp.logs) :
              /\ \E i \in 1..Len(Matching) : Matching[i] = resp.logs[k]
              /\ Cardinality(Newer(resp.logs[k])) <= resp.pagination.offset + k - 1
              /\ Cardinality(NotOlder(resp.logs[k])) >= resp.pagination.offset + k
              /\ \A h \in 1..Len(resp.logs) :
                   h # k => resp.logs[h]._id # resp.logs[k]._id

\* the second page of one entry, of two matching entries of different times
C13_Witness ==
  /\ QueryAnswered
  /\ resp.total_count = 2
  /\ resp.pagination.offset = 1
  /\ resp.pagination.limit = 1
  /\ Len(resp.logs) = 1
  /\ Cardinality(Newer(resp.logs[1])) = 1

\* a query has been answered, with a page or with an error
QueryDone == pc = "responded" /\ req.op = "query"

\* the limit of the request is a number outside 1..100
LimitOutOfRange ==
  /\ QueryDone
  /\ Supplied(req.query.limit)
  /\ req.query.limit.s \in Numerals
  /\ ParseInt(req.query.limit.s) < 1 \/ ParseInt(req.query.limit.s) > 100

\* C14 as stated: a limit outside 1..100 is served, clamped into 1..100.
C14_LimitClamped ==
  LimitOutOfRange =>
    /\ resp.status = 200
    /\ resp.pagination.limit = Max(1, Min(100, ParseInt(req.query.limit.s)))

\* C14 as amended: a limit outside 1..100 is rejected with 400 and no page;
\* a query served without limit uses limit 10 and one served without offset
\* uses offset 0.
C14_LimitRejected ==
  /\ LimitOutOfRange =>
       /\ resp.status = 400
       /\ resp.detail = "Validation errors"
       /\ resp.logs = <<>>
  /\ (QueryAnswered /\ ~Supplied(req.query.limit)) =>
       /\ resp.pagination.limit = 10
       /\ Len(resp.logs) <= 10
  /\ (QueryAnswered /\ ~Supplied(req.query.offset)) =>
       /\ resp.pagination.offset = 0
       /\ Len(resp.logs) = Min(resp.pagination.limit, resp.total_count)

\* a query with limit 500 was rejected while the store holds entries of the
\* caller
C14_Witness ==
  /\ LimitOutOfRange
  /\ req.query.limit.s = "500"
  /\ resp.status = 400
  /\ \E i \in 1..Len(logs) : logs[i].organizationID = req.user.organizationID

(* --------------- properties of the operations by identifier ------------ *)
\* the step answers a request by identifier with success
ByIdSucceeds ==
  /\ pc = "idle"
  /\ pc' = "responded"
  /\ req'.op \in {"get", "patch", "put", "delete"}
  /\ resp'.status = 200

\* C5: a read, PATCH, PUT or DELETE by identifier succeeds only on an entry
\* of the organization of the caller.
C5_ByIdTenantIsolation ==
  [][ByIdSucceeds =>
        \A i \in 1..Len(logs) :
          logs[i]._id = req'.id => logs[i].organizationID = req'.user.organizationID]_vars

\* C6: a PATCH leaves the timestamp and the organizationID of every entry as
\* they were.
C6_PatchKeepsTimestampAndOrganization ==
  [][(pc = "idle" /\ pc' = "responded" /\ req'.op = "patch") =>
        \A i \in 1..Len(logs) : \A j \in 1..Len(logs') :
          logs[i]._id = logs'[j]._id =>
            /\ logs'[j].timestamp = logs[i].timestamp
            /\ logs'[j].organizationID = logs[i].organizationID]_vars

(* ---------------------- properties of flattenObject -------------------- *)
\* the value is a plain object
IsPlainObject(v) == v.t = "obj"

\* C15: flattening the result of flattenObject again gives the same result.
C15_FlattenIdempotent == Len(output) = 2 => output[2] = output[1]

\* an input nested three levels deep has been flattened twice
C15_Witness ==
  /\ Len(output) = 2
  /\ output[1] # input
  /\ \E i \in 1..Len(input.kv) :
       /\ IsPlainObject(input.kv[i].v)
       /\ \E j \in 1..Len(input.kv[i].v.kv) : IsPlainObject(input.kv[i].v.kv[j].v)

\* C16: no stored entry has a meta value that is itself a plain object.
C16_StoredMetaIsFlat ==
  \A i \in 1..Len(logs) :
    \A j \in 1..Len(logs[i].meta.kv) : ~IsPlainObject(logs[i].meta.kv[j].v)

(* ----------------------- properties of the parsers --------------------- *)
\* a manager's upload of one non-blank line has been answered
LineAnswered ==
  /\ UploadAnswered
  /\ Len(req.file.lines) = 1
  /\ req.file.lines[1].trimmed # ""

\* the line, and the entry the upload builds for it
TheLine == req.file.lines[1]
TheEntry == ProcessLine(TheLine, 1, req.user, req.file.originalname, now).entry

\* the format of the first pattern, in the order json_lines, syslog,
\* nginx_error, clf, that the line matches ("" when it matches none)
FirstFormat(line) ==
  IF line.json # NoMatch THEN "json_lines"
  ELSE IF line.syslog # NoMatch THEN "syslog"
  ELSE IF line.nginx # NoMatch THEN "nginx_error"
  ELSE IF line.clf # NoMatch THEN "clf"
  ELSE ""

\* C17: the entry of a line has the format of the first pattern the line
\* matches, in the order json_lines, syslog, nginx_error, clf, also when a
\* later pattern matches too; a line that matches none yields the parse
\* failure "Unknown log format".
C17_ClassifierPriority ==
  LineAnswered =>
    IF FirstFormat(TheLine) # ""
    THEN TheEntry.format = FirstFormat(TheLine)
    ELSE /\ TheEntry.level = "error"
         /\ TheEntry.message = Str("Failed to parse log line: Unknown log format")

\* a line that matches the syslog and the CLF patterns was uploaded
C17_Witness ==
  /\ LineAnswered
  /\ TheLine.syslog # NoMatch
  /\ TheLine.clf # NoMatch
  /\ TheEntry.format = "syslog"

\* the text has no upper-case letter
IsLowerCase(x) == ToLowerCase(x) = x

\* the JSON value carries a level or a severity
CarriesLevel(data) == Truthy(Get(data, "level")) \/ Truthy(Get(data, "severity"))

\* C18: the entry of a line that is valid JSON has a lower-case level, and
\* level info when the line carries neither a level nor a severity.
C18_JsonLevel ==
  (LineAnswered /\ TheLine.json # NoMatch) =>
    /\ IsLowerCase(TheEntry.level)
    /\ ~CarriesLevel(TheLine.json[1]) => TheEntry.level = "info"

\* the line is classified as CLF, as nginx_error
IsClfLine == LineAnswered /\ FirstFormat(TheLine) = "clf"
IsNginxLine == LineAnswered /\ FirstFormat(TheLine) = "nginx_error"

\* C19: the entry of a CLF line has level error for a status of 500 or more,
\* warn from 400 to 499 and info below 400, service http and message
\* "<method> <path> <status>".
C19_ClfLevel ==
  IsClfLine =>
    LET match == TheLine.clf[1]
        status == ParseInt(match.status)
    IN /\ status >= 500 => TheEntry.level = "error"
       /\ (status >= 400 /\ status < 500) => TheEntry.level = "warn"
       /\ status < 400 => TheEntry.level = "info"
       /\ TheEntry.service = Str("http")
       /\ TheEntry.message =
            Str(match.request[1] \o " " \o match.request[2] \o " " \o match.status)

\* a CLF line with status 400 was uploaded
C19_Witness ==
  /\ IsClfLine
  /\ TheLine.clf[1].status = "400"
  /\ TheEntry.level = "warn"

\* C20: the entry of an nginx_error line has service nginx, the bracketed
\* severity in lower case as level, and meta with pid and thread_id, with
\* connection_id (null without a connection) and with client_ip exactly when
\* the message names a client.
C20_NginxEntry ==
  IsNginxLine =>
    LET match == TheLine.nginx[1]
        meta == TheEntry.meta
    IN /\ TheEntry.service = Str("nginx")
       /\ TheEntry.level = ToLowerCase(match.level)
       /\ Get(meta, "pid") = Str(match.pid)
       /\ Get(meta, "thread_id") = Str(match.tid)
       /\ Get(meta, "connection_id") =
            (IF match.connectionId = Undefined THEN Null ELSE match.connectionId)
       /\ "client_ip" \in Keys(meta.kv) <=> match.clientIp # <<>>
       /\ match.clientIp # <<>> => Get(meta, "client_ip") = Str(match.clientIp[1])

\* an nginx_error line without connection and without client was uploaded
C20_Witness ==
  /\ IsNginxLine
  /\ TheLine.nginx[1].connectionId = Undefined
  /\ TheLine.nginx[1].clientIp = <<>>
  /\ Get(TheEntry.meta, "connection_id") = Null

(* ------------------- properties of the end of an upload ---------------- *)
\* the elements of a sequence
Range(q) == {q[i] : i \in 1..Len(q)}

\* this step is an upload whose batch insert failed
InsertFailed ==
  /\ pc = "idle"
  /\ req'.op = "upload"
  /\ "Log.insertMany" \in Range(trace')
  /\ resp'.status = 500

\* C21: when the batch insert of an upload fails, the response is a failure
\* without statistics and no entry of the batch is in the collection.
C21_StorageFailureAllOrNothing ==
  [][InsertFailed => (resp'.stats = NoStats /\ logs' = logs)]_vars

(* ------------------------ properties of the roles ---------------------- *)
\* the operations whose method is POST, PUT, PATCH or DELETE
WriteOps == {"upload", "ingest", "patch", "put", "delete"}

\* this step answers a request that changes data and comes from a user who
\* is not a manager
ViewerWrites ==
  /\ pc = "idle"
  /\ pc' = "responded"
  /\ req'.op \in WriteOps
  /\ req'.user.role # "manager"

\* C22: a POST, PUT, PATCH or DELETE of an authenticated user who is not a
\* manager is answered 403 by the role check, no handler runs and the logs
\* collection stays as it is.
C22_ViewerIsReadOnly ==
  [][ViewerWrites =>
       /\ resp'.status = 403
       /\ Range(trace') \subseteq {"jwtValidationMiddleware", "roleCheckMiddleware"}
       /\ logs' = logs]_vars

\* a viewer's DELETE of a log that exists was answered
C22_Witness ==
  /\ pc = "responded"
  /\ req.op = "delete"
  /\ req.user.role = "viewer"
  /\ \E i \in 1..Len(logs) :
       logs[i]._id = req.id /\ logs[i].organizationID = req.user.organizationID
  /\ resp.status = 403

(* --------------------- properties of the validation -------------------- *)
\* the fields of a manual-create body that are invalid: a level or a format
\* outside the enums, a service or a message missing or empty
InvalidBodyFields(body) ==
  {name \in {"level", "service", "message", "format"} :
     \/ name = "level" /\ ~(\E l \in LogLevelValues : Get(body, "level") = Str(l))
     \/ name = "format" /\ ~(\E f \in LogFormatValues : Get(body, "format") = Str(f))
     \/ name = "service" /\ Get(body, "service") \in {Undefined, Null, Str("")}
     \/ name = "message" /\ Get(body, "message") \in {Undefined, Null, Str("")}}

\* the parameters of a query that are given and invalid: a level or a format
\* outside the enums, a date that is not ISO 8601, a limit outside 1..100, a
\* negative offset
InvalidQueryFields(q) ==
  {name \in {"level", "format", "start_date", "end_date", "limit", "offset"} :
     \/ name = "level" /\ Supplied(q.level) /\ q.level.s \notin LogLevelValues
     \/ name = "format" /\ Supplied(q.format) /\ q.format.s \notin LogFormatValues
     \/ name = "start_date" /\ Supplied(q.start_date) /\ IsoDate(q.start_date.s) = 0
     \/ name = "end_date" /\ Supplied(q.end_date) /\ IsoDate(q.end_date.s) = 0
     \/ name = "limit" /\ Supplied(q.limit)
          /\ ~(ParseInt(q.limit.s) >= 1 /\ ParseInt(q.limit.s) <= 100)
     \/ name = "offset" /\ Supplied(q.offset) /\ ParseInt(q.offset.s) < 0}

\* the invalid fields of the request this step answers, when it is a manual
\* create that passed the role check or a query
InvalidFields ==
  IF req'.op = "ingest" /\ req'.user.role = "manager" THEN InvalidBodyFields(req'.body)
  ELSE IF req'.op = "query" THEN InvalidQueryFields(req'.query)
  ELSE {}

\* the calls on the logs collection
StoreCalls ==
  {"Log.find", "Log.findById", "Log.findByIdAndDelete", "Log.insertMany", "log.save"}

\* C23: a manual create or a query with an invalid field is answered 400 with
\* the invalid fields; no entry is created and the handler makes no call on
\* the logs collection.
C23_ValidationBeforeProcessing ==
  [][(pc = "idle" /\ pc' = "responded" /\ InvalidFields # {}) =>
       /\ resp'.status = 400
       /\ resp'.errors = InvalidFields
       /\ logs' = logs
       /\ Range(trace') \cap StoreCalls = {}]_vars

\* a manual create with an empty service and an unknown format was rejected
C23_Witness ==
  /\ pc = "responded"
  /\ req.op = "ingest"
  /\ Get(req.body, "service") = Str("")
  /\ resp.status = 400
  /\ resp.errors = {"service", "format"}

(* ------------------ properties of the temporary file ------------------- *)
\* an upload that received a file has been answered
FileUploadAnswered ==
  /\ pc = "responded"
  /\ req.op = "upload"
  /\ req.file.path # 0

\* C24: when the response to an upload that received a file is sent, the
\* temporary file is no longer in uploads/logs.
C24_TemporaryFileRemoved == FileUploadAnswered => req.file.path \notin disk

(* ---------------- properties of the keys flattenObject keeps ----------- *)
\* the pairs whose value is not a nested object, in the order flattenObject
\* visits them
RECURSIVE Leaves(_)
Leaves(entries) ==
  IF entries = <<>> THEN <<>>
  ELSE (IF Head(entries).v.t = "obj" THEN Leaves(Head(entries).v.kv)
        ELSE <<Head(entries)>>) \o Leaves(Tail(entries))

\* the value of the last pair with this key
LastValue(pairs, key) ==
  pairs[CHOOSE i \in 1..Len(pairs) :
          /\ pairs[i].k = key
          /\ \A j \in (i + 1)..Len(pairs) : pairs[j].k # key].v

\* C25: the result of flattenObject has the keys of the values that are not
\* nested objects and no key of a nested object that is not also such a key,
\* each key once, with the value visited last under that key, unchanged.
C25_FlattenLastWins ==
  (input.t = "obj" /\ Len(output) >= 1) =>
    LET leaves == Leaves(input.kv)
        flattened == output[1].kv
    IN /\ Keys(flattened) = Keys(leaves)
       /\ \A i, j \in 1..Len(flattened) : flattened[i].k = flattened[j].k => i = j
       /\ \A i \in 1..Len(flattened) :
            flattened[i].v = LastValue(leaves, flattened[i].k)

\* {a: "x", b: {a: null}} was flattened to {a: null}
C25_Witness ==
  /\ input = Obj(<<KV("a", Str("x")), KV("b", Obj(<<KV("a", Null)>>))>>)
  /\ Len(output) >= 1
  /\ output[1] = Obj(<<KV("a", Null)>>)

(* ----------------- properties of the lines of an upload ---------------- *)
\* this step answers a manager's upload of a file with success
UploadSucceeds ==
  /\ pc = "idle"
  /\ req'.op = "upload"
  /\ req'.file.present
  /\ resp'.status = 200

\* the positions in the file of the lines that are not empty after trimming
Parsed(lines) == {i \in 1..Len(lines) : lines[i].trimmed # ""}

\* the position in the file of the k-th of these lines
PositionOf(lines, k) ==
  CHOOSE i \in Parsed(lines) : Cardinality({j \in Parsed(lines) : j <= i}) = k

\* C26: an upload stores one entry for each line that is not empty after
\* trimming and none for the others; total_lines counts every line and
\* parsed_logs the entries; a line number in the entry of a failed line is
\* the position of the line in the file; error_count <= parsed_logs <=
\* total_lines.
C26_BlankLinesAndNumbering ==
  [][UploadSucceeds =>
       LET lines == req'.file.lines
           stats == resp'.stats
       IN /\ stats.total_lines = Len(lines)
          /\ stats.parsed_logs = Cardinality(Parsed(lines))
          /\ Len(logs') = Len(logs) + Cardinality(Parsed(lines))
          /\ stats.error_count <= stats.parsed_logs
          /\ stats.parsed_logs <= stats.total_lines
          /\ \A k \in 1..Cardinality(Parsed(lines)) :
               LET entry == logs'[Len(logs) + k]
               IN "line_number" \in Keys(entry.meta.kv) =>
                    Get(entry.meta, "line_number") =
                      Num(ToString(PositionOf(lines, k)))]_vars

\* a file of a blank line and a line that is stored was uploaded
C26_Witness ==
  /\ pc = "responded"
  /\ req.op = "upload"
  /\ resp.status = 200
  /\ Len(req.file.lines) = 2
  /\ req.file.lines[1].trimmed = ""
  /\ req.file.lines[2].trimmed # ""
  /\ resp.stats.total_lines = 2
  /\ resp.stats.parsed_logs = 1

(* --------------------- properties of the middlewares ------------------- *)
\* a request that is neither to an exempt path nor an OPTIONS request has
\* been answered by app.js
ProtectedAnswered ==
  /\ pc = "responded"
  /\ http.method \notin {"", "OPTIONS"}
  /\ http.path \notin {"/auth/signup", "/auth/login", "/health"}

\* the tokens of the requests that verify, and the users in the store
ValidTokens == {"ghost", "mgrA", "viewA"}
KnownUsers == {"mgrA", "viewA"}

\* the header carries a Bearer token that verifies
Verified ==
  /\ http.authorization # <<>>
  /\ http.authorization[1] = "Bearer"
  /\ http.authorization[2] \in ValidTokens

\* something other than a middleware ran
HandlerRan ==
  \E i \in 1..Len(trace) :
    trace[i] \notin {"jwtValidationMiddleware", "roleCheckMiddleware"}

\* C27: for a request that is neither to an exempt path nor an OPTIONS
\* request, a handler runs only as the third step after the JWT validation,
\* with a verified token of a user in the store, and the role check; a
\* missing, non-Bearer, invalid or expired token is answered 401 and the token
\* of an unknown user 404, and then no handler runs.
C27_AuthenticationPrecedesHandlers ==
  ProtectedAnswered =>
    /\ HandlerRan =>
         /\ Verified
         /\ http.authorization[2] \in KnownUsers
         /\ req.user.username = http.authorization[2]
         /\ Len(trace) = 3
         /\ trace[1] = "jwtValidationMiddleware"
         /\ trace[2] = "roleCheckMiddleware"
    /\ ~Verified => (resp.status = 401 /\ ~HandlerRan)
    /\ (Verified /\ http.authorization[2] \notin KnownUsers) =>
         (resp.status = 404 /\ ~HandlerRan)

\* the request of a user that is gone was answered 404
C27_Witness ==
  /\ ProtectedAnswered
  /\ http.path = "/logs"
  /\ http.authorization = <<"Bearer", "ghost">>
  /\ resp.status = 404
  /\ trace = <<"jwtValidationMiddleware">>

(* ---------------------- properties of the dashboard -------------------- *)
\* C28: once no debounce timer is pending, the search parameters hold the
\* last value entered in the search, level and date inputs.
C28_NoLostFilterUpdate ==
  timers = <<>> =>
    \A param \in {"search", "level", "start_date", "end_date"} :
      searchFilters[param] = OrUndefined(entered[param])

\* C29: once every response has been handled and none was a failure, the
\* logs on display are those of the response to the current filters.
C29_DisplayMatchesLatestFilters ==
  (inflight = <<>> /\ ~fetchError) =>
    (logsData # <<>> /\ logsData[1].filters = searchFilters)

\* C30: the offset of the search filters is a multiple of their limit.
C30_PageAlignment == searchFilters.offset % searchFilters.limit = 0

====
